---- MODULE Spec2Model ----
(***************************************************************************)
(* A model of ibdprep (src/bin_src/third-party-bins/ibd-src-large/         *)
(* ibdprep.c), the pedigree engine of solar-eclipse: ingestion of the      *)
(* pedigree records, identity index, family builder, twin table,           *)
(* generation assignment, pedigree partitioning, loop analysis, final      *)
(* sequencing and the kinship matrix.                                      *)
(*                                                                         *)
(* The run modelled is "ibdprep y pedFile idLen sexLen twinidLen 0": the   *)
(* doIndex mode, no family-id prefix, no household field.  Each function   *)
(* that main() calls is one action; pc names the call main() makes next.   *)
(* C arrays are functions over 0..n-1, C strings are tuples of character   *)
(* codes, a NULL pointer or a missing index is -1.                         *)
(***************************************************************************)
EXTENDS Integers, Sequences, FiniteSets, TLC

VARIABLES
    pc,        \* the call main() makes next, or "done" / "fatal"
    pedFile,   \* the records of the pedigree-data file, in file order
    IndArray,  \* Ind *IndArray[], index 0..NumInd-1 (and beyond, while makeFams adds)
    NumInd,
    NumFou,
    famList,   \* char *famList[]: father id followed by mother id, per non-founder
    idFam,     \* int idFam[]: index into famList, -1 for a founder
    IndSort,   \* int IndSort[]: individuals sorted by id
    FamArray,
    NumFam,
    TwinArray,
    PedArray,
    NumPed,
    MaxLbrk,
    links,     \* per pedigree with loops: nlink, linkInd, linkList as findBreaks saw them
    IndSeq,
    kin2,      \* float *kin2[]: lower triangle, in units of 1/KinUnit
    phi2,      \* the lines written to file "phi2"
    isInbred,
    ErrCnt,
    WrnCnt,
    ErrMsg,    \* the message of the fatalError() that ended the run, "" if none
    qVals,     \* char **vals of a call of qSort() on its own
    qNumeric,  \* int numeric of that call
    qOrd       \* int *ord of that call

vars == <<pc, pedFile, IndArray, NumInd, NumFou, famList, idFam, IndSort,
          FamArray, NumFam, TwinArray, PedArray, NumPed, MaxLbrk, links,
          IndSeq, kin2, phi2, isInbred, ErrCnt, WrnCnt, ErrMsg,
          qVals, qNumeric, qOrd>>

----------------------------------------------------------------------------
(* Bounds of the model. *)

\* the largest number of records of an enumerated pedigree file
MaxInd == 4
\* the largest number of records of a file that carries one damaged field
MaxDefInd == 3
\* the longest list of keys handed to qSort() on its own
MaxKeys == 4
\* the most records in a file enumerated with cyclic parent links
MaxCycInd == 3

(* Program configuration and character codes. *)

\* argv idLen
IdLen == 1
\* argv sexLen
SexLen == 1
\* argv twinidLen
TwinIdLen == 1
\* a field malloc() or the stack left unset; reading it yields any value
Uninit == -999

TAB == 9
SP == 32
Ch0 == 48
Ch1 == 49
Ch2 == 50
ChUpperM == 77
ChLowerM == 109
ChUpperF == 70
ChLowerF == 102
ChUpperU == 85
ChLowerU == 117
ChUpperX == 88
ChUpperZ == 90

Max(a, b) == IF a > b THEN a ELSE b
Min(a, b) == IF a < b THEN a ELSE b

\* a C array in memory: every element holds its value
Arr(a) == IF a = a THEN a ELSE a
\* an empty C array
NoArr == Arr([i \in {} |-> 0])
\* the array a with a[n] set, growing its domain when n is new
Put(a, n, v) == Arr([i \in (DOMAIN a) \cup {n} |-> IF i = n THEN v ELSE a[i]])

----------------------------------------------------------------------------
(* C library string functions on tuples of character codes. *)

RECURSIVE StrCmpFrom(_, _, _)
StrCmpFrom(a, b, k) ==
    IF k > Len(a) /\ k > Len(b) THEN 0
    ELSE IF k > Len(a) THEN -1
    ELSE IF k > Len(b) THEN 1
    ELSE IF a[k] < b[k] THEN -1
    ELSE IF a[k] > b[k] THEN 1
    ELSE StrCmpFrom(a, b, k + 1)

\* strcmp: the sign of the first differing character
strcmp(a, b) == StrCmpFrom(a, b, 1)

\* unknown(): every character is a blank, a tab or a zero
unknown(id) == \A k \in 1..Len(id) : id[k] \in {SP, TAB, Ch0}

----------------------------------------------------------------------------
(* qSort: the explicit-stack quicksort over ord, comparing vals[ord[.]]. *)

RECURSIVE AtoiDigits(_, _, _)
AtoiDigits(s, k, acc) ==
    IF k > Len(s) \/ s[k] < Ch0 \/ s[k] > Ch0 + 9 THEN acc
    ELSE AtoiDigits(s, k + 1, 10 * acc + (s[k] - Ch0))

RECURSIVE AtoiSkip(_, _)
AtoiSkip(s, k) ==
    IF k <= Len(s) /\ s[k] \in {SP, TAB} THEN AtoiSkip(s, k + 1) ELSE k

\* atoi: leading white space, an optional sign, then the digits
atoi(s) ==
    LET k == AtoiSkip(s, 1)
    IN  IF k <= Len(s) /\ s[k] = 45 THEN 0 - AtoiDigits(s, k + 1, 0)
        ELSE IF k <= Len(s) /\ s[k] = 43 THEN AtoiDigits(s, k + 1, 0)
        ELSE AtoiDigits(s, k, 0)

\* a comparison that is bytewise in both modes
qLessBytes(a, b, numeric) == strcmp(a, b) < 0

\* the comparison of qSort's two modes: a < b
qLess(a, b, numeric) ==
    IF numeric THEN atoi(a) < atoi(b) ELSE strcmp(a, b) < 0

RECURSIVE qScanUp(_, _, _, _, _)
qScanUp(vals, ord, mid, numeric, i) ==
    IF qLess(vals[ord[i]], mid, numeric)
    THEN qScanUp(vals, ord, mid, numeric, i + 1) ELSE i

RECURSIVE qScanDown(_, _, _, _, _)
qScanDown(vals, ord, mid, numeric, j) ==
    IF qLess(mid, vals[ord[j]], numeric)
    THEN qScanDown(vals, ord, mid, numeric, j - 1) ELSE j

\* the innermost do-while: one partition around mid; yields ord, i, j
RECURSIVE qPartition(_, _, _, _, _, _)
qPartition(vals, ord, mid, numeric, i0, j0) ==
    LET Swap(i, j) ==
            IF i > j THEN [ord |-> ord, i |-> i, j |-> j]
            ELSE IF i + 1 <= j - 1
            THEN qPartition(vals, [ord EXCEPT ![i] = ord[j], ![j] = ord[i]],
                            mid, numeric, i + 1, j - 1)
            ELSE [ord |-> [ord EXCEPT ![i] = ord[j], ![j] = ord[i]],
                  i |-> i + 1, j |-> j - 1]
    IN  Swap(qScanUp(vals, ord, mid, numeric, i0),
             qScanDown(vals, ord, mid, numeric, j0))

\* the middle do-while: partition l..h, stack the upper part, go on below
RECURSIVE qMiddle(_, _, _, _, _, _)
qMiddle(vals, ord, numeric, l, h, stk) ==
    LET Below(p, stk2) ==
            IF l < p.j THEN qMiddle(vals, p.ord, numeric, l, p.j, stk2)
            ELSE [ord |-> p.ord, stk |-> stk2]
        Push(p) == Below(p, IF p.i < h THEN Append(stk, <<p.i, h>>) ELSE stk)
    IN  Push(qPartition(vals, ord, vals[ord[((l + h) \div 2) + 1]], numeric, l, h))

\* the outer do-while: pop lo[t], hi[t] until the stack is empty
RECURSIVE qOuter(_, _, _, _)
qOuter(vals, ord, numeric, stk) ==
    LET Pop(top, rest) ==
            LET Again(r) == qOuter(vals, r.ord, numeric, r.stk)
            IN  Again(qMiddle(vals, ord, numeric, top[1], top[2], rest))
    IN  IF stk = <<>> THEN ord
        ELSE Pop(stk[Len(stk)], SubSeq(stk, 1, Len(stk) - 1))

qSort(vals, nvals, numeric) ==
    IF nvals = 0 THEN NoArr
    ELSE IF nvals = 1 THEN Arr([i \in 0..(nvals - 1) |-> i])
    ELSE qOuter(vals, Arr([i \in 0..(nvals - 1) |-> i]), numeric,
                <<<<0, nvals - 1>>>>)

----------------------------------------------------------------------------
(* The pedigree-data files the runs read.  A file is a tuple of records    *)
(* [id, fa, mo, sex, twinid], each field a string of the configured width. *)

\* the id of the individual labelled k: one letter, 'A' for 1
IdOf(k) == <<64 + k>>
Blank == <<SP>>

Rec(id, fa, mo, sex, twinid) ==
    [id |-> id, fa |-> fa, mo |-> mo, sex |-> sex, twinid |-> twinid]

\* the parents a record labelled k may name: none, or two distinct earlier labels
ParOptions(k) ==
    {<<0, 0>>} \cup
    {pr \in (1..(k - 1)) \X (1..(k - 1)) : pr[1] # pr[2]}

\* every acyclic parent structure over the labels 1..n
RECURSIVE Structs(_)
Structs(n) ==
    IF n = 0 THEN {<<>>}
    ELSE {Append(s, p) : s \in Structs(n - 1), p \in ParOptions(n)}

\* the twin groups offered with a structure: none, or two labels of one family
SameFamTwins(par) ==
    {{}} \cup {t \in SUBSET (1..Len(par)) :
                  Cardinality(t) = 2 /\ \A a, b \in t : par[a] = par[b]}

\* the sex column written for label k: by the role it plays as a parent
SexOf(par, k) ==
    IF \E c \in 1..Len(par) : par[c][1] = k THEN <<Ch1>>
    ELSE IF \E c \in 1..Len(par) : par[c][2] = k THEN <<Ch2>>
    ELSE Blank

\* the file of a structure: mirror reverses the id order, rev the record order
FileOf(par, tw, mirror, rev) ==
    LET n == Len(par)
        lab(k) == IF mirror THEN n + 1 - k ELSE k
        idp(k) == IF k = 0 THEN Blank ELSE IdOf(lab(k))
        rec(k) == Rec(IdOf(lab(k)), idp(par[k][1]), idp(par[k][2]),
                      SexOf(par, k), IF k \in tw THEN <<Ch1>> ELSE Blank)
    IN  [r \in 1..n |-> rec(IF rev THEN n + 1 - r ELSE r)]

FilesOf(par) ==
    {FileOf(par, tw, mirror, rev) :
        tw \in SameFamTwins(par), mirror \in BOOLEAN, rev \in BOOLEAN}

\* every file of at most MaxInd records with an acyclic parent structure
EnumFiles == UNION {UNION {FilesOf(par) : par \in Structs(n)} : n \in 1..MaxInd}

\* the characters a damaged field may hold
IdChars == {SP, TAB, Ch0, 65, 66, 67, ChUpperZ}
SexChars == {Ch1, Ch2, ChUpperM, ChLowerM, ChUpperF, ChLowerF, SP, Ch0,
             ChUpperU, ChLowerU, ChUpperX}
TwinChars == {SP, Ch0, Ch1, Ch2}

\* the file f with one field of record r overwritten
Damaged(f) ==
    {[f EXCEPT ![r].id = <<c>>] : r \in 1..Len(f), c \in IdChars} \cup
    {[f EXCEPT ![r].fa = <<c>>] : r \in 1..Len(f), c \in IdChars} \cup
    {[f EXCEPT ![r].mo = <<c>>] : r \in 1..Len(f), c \in IdChars} \cup
    {[f EXCEPT ![r].sex = <<c>>] : r \in 1..Len(f), c \in SexChars} \cup
    {[f EXCEPT ![r].twinid = <<c>>] : r \in 1..Len(f), c \in TwinChars}

\* files of at most MaxDefInd records in which one field is damaged
DefectFiles ==
    UNION {UNION {Damaged(FileOf(par, {}, FALSE, FALSE)) : par \in Structs(n)} :
              n \in 1..MaxDefInd}

\* a file given by its parent structure alone
Ped(par) == FileOf(par, {}, FALSE, FALSE)

\* A x B have C and D, who mate and have E (spec, scenario B)
SibMating == <<<<0, 0>>, <<0, 0>>, <<1, 2>>, <<1, 2>>, <<3, 4>>>>
\* A x B have C; A x C have the twins D and E
InbredTwins == <<<<0, 0>>, <<0, 0>>, <<1, 2>>, <<1, 3>>, <<1, 3>>>>
\* two brothers marry two sisters
TwoBrothersTwoSisters ==
    <<<<0, 0>>, <<0, 0>>, <<0, 0>>, <<0, 0>>, <<1, 2>>, <<1, 2>>,
      <<3, 4>>, <<3, 4>>, <<5, 7>>, <<6, 8>>>>
\* four founders mated in a ring: A x C, A x D, B x C, B x D
FounderRing ==
    <<<<0, 0>>, <<0, 0>>, <<0, 0>>, <<0, 0>>, <<1, 3>>, <<1, 4>>,
      <<2, 3>>, <<2, 4>>>>
\* first cousins mate
CousinMating ==
    <<<<0, 0>>, <<0, 0>>, <<0, 0>>, <<0, 0>>, <<1, 2>>, <<1, 2>>,
      <<5, 3>>, <<4, 6>>, <<7, 8>>>>

\* a founder couple with one child (spec, scenario A)
Trio == <<<<0, 0>>, <<0, 0>>, <<1, 2>>>>
\* A x B have the twins C and D; C x B have E
TwinUncle == <<<<0, 0>>, <<0, 0>>, <<1, 2>>, <<1, 2>>, <<3, 2>>>>
\* A x B have C, A x C have D; E is related to nobody
MatingAndStranger == <<<<0, 0>>, <<0, 0>>, <<1, 2>>, <<1, 3>>, <<0, 0>>>>

\* A x B have C and D, C x D have E and F, E x F have G
DoubleSibMating ==
    <<<<0, 0>>, <<0, 0>>, <<1, 2>>, <<1, 2>>, <<3, 4>>, <<3, 4>>, <<5, 6>>>>

\* a trio whose first record has an invalid sex code and whose last record
\* names a father only
TwoDefects == [Ped(Trio) EXCEPT ![1].sex = <<ChUpperX>>, ![3].mo = Blank]

\* three records with one id
ThreeAlike ==
    <<Rec(IdOf(1), Blank, Blank, Blank, Blank),
      Rec(IdOf(1), Blank, Blank, Blank, Blank),
      Rec(IdOf(1), Blank, Blank, Blank, Blank)>>

\* C and D are half sibs through the father A, who has no record
HalfSibsNoFather ==
    <<Rec(IdOf(2), Blank, Blank, <<Ch2>>, Blank),
      Rec(IdOf(3), IdOf(1), IdOf(2), Blank, Blank),
      Rec(IdOf(4), Blank, Blank, <<Ch2>>, Blank),
      Rec(IdOf(5), IdOf(1), IdOf(4), Blank, Blank)>>

\* one record, both of whose parents have no record
BothMissing == <<Rec(IdOf(3), IdOf(1), IdOf(2), Blank, Blank)>>

\* the parents a record labelled k of n may name when the order of birth is
\* not respected: none, or two distinct labels other than k
CycOptions(n, k) ==
    {<<0, 0>>} \cup
    {pr \in (1..n) \X (1..n) : pr[1] # pr[2] /\ pr[1] # k /\ pr[2] # k}

RECURSIVE CycStructs(_, _)
CycStructs(n, k) ==
    IF k = 0 THEN {<<>>}
    ELSE {Append(s, p) : s \in CycStructs(n, k - 1), p \in CycOptions(n, k)}

\* the labels in S and all their ancestors
RECURSIVE AncLabels(_, _)
AncLabels(par, S) ==
    LET Grow(T) == IF T = S THEN S ELSE AncLabels(par, T)
    IN  Grow(S \cup (({par[c][1] : c \in S} \cup {par[c][2] : c \in S}) \ {0}))

\* some label is its own ancestor
CyclicStruct(par) ==
    \E k \in 1..Len(par) : k \in AncLabels(par, {par[k][1], par[k][2]} \ {0})

\* every file of at most MaxCycInd records whose parent links hold a cycle
CyclicFiles ==
    UNION {UNION {{FileOf(par, {}, mirror, rev) : mirror, rev \in BOOLEAN} :
                     par \in {s \in CycStructs(n, n) : CyclicStruct(s)}} :
              n \in 2..MaxCycInd}

\* A is the child of B x C and B the child of A x D; E is a child of A x C
CycleWithChild == <<<<2, 3>>, <<1, 4>>, <<0, 0>>, <<0, 0>>, <<1, 3>>>>

\* B x C have D; A and E are related to nobody
StrangersAndTrio == <<<<0, 0>>, <<0, 0>>, <<0, 0>>, <<2, 3>>, <<0, 0>>>>

\* A x B have C and D, C x D have E; E x F have G and G x H have I, two
\* families that hang off the loop one after the other
SibMatingTwoLeaves ==
    <<<<0, 0>>, <<0, 0>>, <<1, 2>>, <<1, 2>>, <<3, 4>>, <<0, 0>>, <<5, 6>>,
      <<0, 0>>, <<7, 8>>>>

\* A x B have C and B x A have D: each founder is the father of one family
\* and the mother of the other; D x A have E
CrossedParents == <<<<0, 0>>, <<0, 0>>, <<1, 2>>, <<2, 1>>, <<4, 1>>>>

\* larger pedigrees, beyond the enumeration
ScenarioFiles ==
    {Ped(SibMating), Ped(TwoBrothersTwoSisters), Ped(FounderRing),
     Ped(CousinMating), FileOf(SibMating, {}, TRUE, TRUE),
     FileOf(InbredTwins, {4, 5}, FALSE, FALSE),
     FileOf(InbredTwins, {4, 5}, TRUE, FALSE),
     FileOf(SibMating, {3, 4}, FALSE, FALSE),
     [FileOf(TwinUncle, {3, 4}, FALSE, FALSE) EXCEPT ![4].sex = <<Ch1>>],
     Ped(MatingAndStranger), Ped(DoubleSibMating),
     TwoDefects, ThreeAlike, HalfSibsNoFather, BothMissing,
     Ped(CycleWithChild), FileOf(MatingAndStranger, {}, TRUE, FALSE),
     Ped(StrangersAndTrio), Ped(SibMatingTwoLeaves),
     FileOf(SibMatingTwoLeaves, {}, TRUE, FALSE), Ped(CrossedParents)}

Files == EnumFiles \cup DefectFiles \cup CyclicFiles \cup ScenarioFiles

----------------------------------------------------------------------------
(* getPedData: one Ind per record, the field checks, famList and idFam. *)

Size(a) == Cardinality(DOMAIN a)

\* the sex switch: the first non-blank character of the field decides
SexIndex(sex) ==
    LET nb == {i \in 1..SexLen : sex[i] # SP}
    IN  IF nb = {} THEN 1 ELSE CHOOSE i \in nb : \A j \in nb : i <= j

SexKnown(c) ==
    c \in {Ch1, ChUpperM, ChLowerM, Ch2, ChUpperF, ChLowerF, SP, Ch0,
           ChUpperU, ChLowerU}

\* the sex stored; the default branch stores nothing
SexCode(c) ==
    IF c \in {Ch1, ChUpperM, ChLowerM} THEN 1
    ELSE IF c \in {Ch2, ChUpperF, ChLowerF} THEN 2
    ELSE IF c \in {SP, Ch0, ChUpperU, ChLowerU} THEN 0
    ELSE Uninit

\* the twin id kept: empty when the field is blanks, tabs and zeros only
TwinField(twinid) ==
    IF \A i \in 1..TwinIdLen : twinid[i] \in {SP, TAB, Ch0} THEN <<>> ELSE twinid

\* the errors logged when the parents are not required to come in pairs
RecErrorsNoPair(rec) ==
    (IF SexKnown(rec.sex[SexIndex(rec.sex)]) THEN 0 ELSE 1) +
    (IF ~unknown(rec.fa) \/ ~unknown(rec.mo)
     THEN (IF strcmp(rec.id, rec.fa) = 0 THEN 1 ELSE 0) +
          (IF strcmp(rec.id, rec.mo) = 0 THEN 1 ELSE 0) +
          (IF strcmp(rec.fa, rec.mo) = 0 THEN 1 ELSE 0)
     ELSE 0)

\* the errors logged when a record may name itself as its father
RecErrorsNoSelf(rec) ==
    (IF SexKnown(rec.sex[SexIndex(rec.sex)]) THEN 0 ELSE 1) +
    (IF ~unknown(rec.fa) \/ ~unknown(rec.mo)
     THEN (IF unknown(rec.fa) \/ unknown(rec.mo) THEN 1 ELSE 0) +
          (IF strcmp(rec.id, rec.mo) = 0 THEN 1 ELSE 0) +
          (IF strcmp(rec.fa, rec.mo) = 0 THEN 1 ELSE 0)
     ELSE 0)

\* the validation errors logged for one record
RecErrors(rec) ==
    (IF SexKnown(rec.sex[SexIndex(rec.sex)]) THEN 0 ELSE 1) +
    (IF ~unknown(rec.fa) \/ ~unknown(rec.mo)
     THEN (IF unknown(rec.fa) \/ unknown(rec.mo) THEN 1 ELSE 0) +
          (IF strcmp(rec.id, rec.fa) = 0 THEN 1 ELSE 0) +
          (IF strcmp(rec.id, rec.mo) = 0 THEN 1 ELSE 0) +
          (IF strcmp(rec.fa, rec.mo) = 0 THEN 1 ELSE 0)
     ELSE 0)

\* a freshly allocated Ind
NewInd(id, sex, twinid, gen) ==
    [id |-> id, sex |-> sex, twinid |-> twinid, itwinid |-> Uninit,
     fam |-> -1, sib |-> -1, ped |-> -1, gen |-> gen, seq |-> Uninit]

\* the body of the while (fgets(...)) loop for one record
GetPedRec(st, rec) ==
    LET founder == unknown(rec.fa) /\ unknown(rec.mo)
        n == st.NumInd
        nf == Size(st.famList)
        ind == NewInd(rec.id, SexCode(rec.sex[SexIndex(rec.sex)]),
                      TwinField(rec.twinid), IF founder THEN 0 ELSE -1)
    IN  [IndArray |-> Put(st.IndArray, n, ind),
         NumInd |-> n + 1,
         NumFou |-> IF founder THEN st.NumFou + 1 ELSE st.NumFou,
         famList |-> IF founder THEN st.famList
                     ELSE Put(st.famList, nf, rec.fa \o rec.mo),
         idFam |-> Put(st.idFam, n, IF founder THEN -1 ELSE nf),
         ErrCnt |-> st.ErrCnt + RecErrors(rec)]

\* a loop that stops reading at the first record with an error
RECURSIVE GetPedLoopStop(_, _, _)
GetPedLoopStop(st, file, k) ==
    IF k > Len(file) \/ st.ErrCnt # 0 THEN st
    ELSE GetPedLoopStop(GetPedRec(st, file[k]), file, k + 1)

RECURSIVE GetPedLoop(_, _, _)
GetPedLoop(st, file, k) ==
    IF k > Len(file) THEN st
    ELSE GetPedLoop(GetPedRec(st, file[k]), file, k + 1)

getPedData(file, errcnt) ==
    GetPedLoop([IndArray |-> NoArr, NumInd |-> 0, NumFou |-> 0,
                famList |-> NoArr, idFam |-> NoArr, ErrCnt |-> errcnt],
               file, 1)

----------------------------------------------------------------------------
(* sortInds and findInd: the identity index. *)

\* a single error however many individuals share an id
DupErrorsOnce(inds, n, ord) ==
    IF \E i \in 1..(n - 1) : strcmp(inds[ord[i]].id, inds[ord[i - 1]].id) = 0
    THEN 1 ELSE 0

\* the duplicate-id errors: one per adjacent equal pair of the sorted order
DupErrors(inds, n, ord) ==
    Cardinality({i \in 1..(n - 1) : strcmp(inds[ord[i]].id, inds[ord[i - 1]].id) = 0})

\* IndSort, the Inds with seq set to the sort rank, and the error count
sortInds(inds, n, errcnt) ==
    LET Ranked(ord) ==
            [IndSort |-> ord,
             IndArray |-> Arr([x \in DOMAIN inds |->
                                  IF x < n
                                  THEN [inds[x] EXCEPT
                                           !.seq = CHOOSE i \in 0..(n - 1) : ord[i] = x]
                                  ELSE inds[x]]),
             ErrCnt |-> errcnt + DupErrors(inds, n, ord)]
    IN  Ranked(qSort(Arr([i \in 0..(n - 1) |-> inds[i].id]), n, FALSE))

RECURSIVE findIndLoop(_, _, _, _, _)
findIndLoop(inds, ord, id, lo, hi) ==
    IF hi < lo THEN -1
    ELSE LET ndx == (lo + hi) \div 2
             cmp == strcmp(id, inds[ord[ndx]].id)
         IN  IF cmp = 0 THEN ord[ndx]
             ELSE IF cmp < 0 THEN findIndLoop(inds, ord, id, lo, ndx - 1)
             ELSE findIndLoop(inds, ord, id, ndx + 1, hi)

\* findInd: binary search of id in the sorted order, -1 when absent
findInd(inds, n, ord, id) == findIndLoop(inds, ord, id, 0, n - 1)

----------------------------------------------------------------------------
(* makeFams: one Fam per distinct (father id, mother id), parents found    *)
(* through findInd or added as founders, children chained through sib.     *)

\* a freshly allocated Fam: fa and mo are set once the parent is found
NewFam ==
    [fa |-> Uninit, mo |-> Uninit, kid1 |-> -1, next |-> -1, nkid |-> 0,
     ped |-> -1, seq |-> Uninit]

\* the parent of family f was found at ndx (or not, ndx = -1); role is 1 for
\* the father, 2 for the mother
ParentAt(st, f, id, role, ndx) ==
    IF ndx = -1
    THEN [st EXCEPT
             !.WrnCnt = @ + 1,
             !.IndArray = Put(@, st.tNumInd, NewInd(id, role, <<>>, 0)),
             !.idFam = Put(@, st.tNumInd, -1),
             !.NumFou = @ + 1,
             !.tNumInd = @ + 1,
             !.redo = 1]
    ELSE IF role = 1
    THEN [st EXCEPT !.WrnCnt = @ + (IF st.IndArray[ndx].sex # 1 THEN 1 ELSE 0),
                    !.IndArray[ndx].sex = 1,
                    !.FamArray[f].fa = ndx]
    ELSE [st EXCEPT !.WrnCnt = @ + (IF st.IndArray[ndx].sex # 2 THEN 1 ELSE 0),
                    !.IndArray[ndx].sex = 2,
                    !.FamArray[f].mo = ndx]

\* find the parent id of family f among the first n individuals
ResolveParent(st, n, ord, f, id, role) ==
    ParentAt(st, f, id, role, findInd(st.IndArray, n, ord, id))

\* FamArray[NumFam] for the key famList[ord[i]]
AddFam(st, n, ord, key) ==
    LET Mother(st2) ==
            ResolveParent(st2, n, ord, st.NumFam, SubSeq(key, IdLen + 1, 2 * IdLen), 2)
        Counted(st3) == [st3 EXCEPT !.NumFam = @ + 1]
    IN  Counted(Mother(ResolveParent([st EXCEPT !.FamArray = Put(@, st.NumFam, NewFam)],
                                     n, ord, st.NumFam, SubSeq(key, 1, IdLen), 1)))

RECURSIVE FamLoop(_, _, _, _, _, _)
FamLoop(st, n, ord, fl, ford, i) ==
    LET Indexed(st1) ==
            FamLoop([st1 EXCEPT !.famndx = Put(@, ford[i], st1.NumFam - 1)],
                    n, ord, fl, ford, i + 1)
    IN  IF i >= Size(fl) THEN st
        ELSE Indexed(IF i = 0 \/ strcmp(fl[ford[i - 1]], fl[ford[i]]) # 0
                     THEN AddFam(st, n, ord, fl[ford[i]])
                     ELSE st)

\* the last child of the sibling chain that starts at k
RECURSIVE LastSib(_, _)
LastSib(inds, k) == IF inds[k].sib = -1 THEN k ELSE LastSib(inds, inds[k].sib)

\* a final loop that puts each child at the head of its family's chain
RECURSIVE AttachKidsFront(_, _)
AttachKidsFront(st, i) ==
    LET Attach(f) ==
            [st EXCEPT !.IndArray[i].fam = f,
                       !.IndArray[i].sib = st.FamArray[f].kid1,
                       !.FamArray[f].kid1 = i,
                       !.FamArray[f].nkid = @ + 1]
    IN  IF i >= st.tNumInd THEN st
        ELSE IF st.idFam[i] < 0 THEN AttachKidsFront(st, i + 1)
        ELSE AttachKidsFront(Attach(st.famndx[st.idFam[i]]), i + 1)

\* the final loop: attach individual i to its family's sibling chain
RECURSIVE AttachKids(_, _)
AttachKids(st, i) ==
    LET Attach(f) ==
            IF st.FamArray[f].kid1 = -1
            THEN [st EXCEPT !.IndArray[i].fam = f,
                            !.FamArray[f].kid1 = i,
                            !.FamArray[f].nkid = @ + 1]
            ELSE [st EXCEPT !.IndArray[i].fam = f,
                            !.IndArray[LastSib(st.IndArray, st.FamArray[f].kid1)].sib = i,
                            !.FamArray[f].nkid = @ + 1]
    IN  IF i >= st.tNumInd THEN st
        ELSE IF st.idFam[i] < 0 THEN AttachKids(st, i + 1)
        ELSE AttachKids(Attach(st.famndx[st.idFam[i]]), i + 1)

\* makeFams: redo = 1 when a parent record was added (the families are freed)
makeFams(inds, n, nfou, ord, fl, idf, wrncnt) ==
    LET st0 == [IndArray |-> inds, tNumInd |-> n, NumFou |-> nfou, idFam |-> idf,
                FamArray |-> NoArr, NumFam |-> 0, famndx |-> NoArr,
                WrnCnt |-> wrncnt, redo |-> 0]
        Kids(st1) == IF st1.redo = 1 THEN st1 ELSE AttachKids(st1, 0)
    IN  IF Size(fl) = 0 THEN st0
        ELSE Kids(FamLoop(st0, n, ord, fl, qSort(fl, Size(fl), FALSE), 0))

----------------------------------------------------------------------------
(* checkTwins: the twin table and the twin id number of every individual. *)

\* findTwin: the 1-based position of twinid in TwinArray, 0 when absent
findTwin(twins, twinid) ==
    LET hits == {i \in DOMAIN twins : strcmp(twinid, twins[i].twinid) = 0}
    IN  IF hits = {} THEN 0 ELSE 1 + CHOOSE i \in hits : \A j \in hits : i <= j

RECURSIVE TwinLoop(_, _)
TwinLoop(st, i) ==
    IF i >= Size(st.IndArray) THEN st
    ELSE LET indp == st.IndArray[i]
             t == findTwin(st.TwinArray, indp.twinid)
         IN  IF indp.twinid = <<>>
             THEN TwinLoop([st EXCEPT !.IndArray[i].itwinid = 0], i + 1)
             ELSE IF t # 0
             THEN TwinLoop([st EXCEPT
                      !.IndArray[i].itwinid = t,
                      !.ErrCnt = @ + (IF indp.sex # st.TwinArray[t - 1].sex THEN 1 ELSE 0)
                                   + (IF indp.fam # st.TwinArray[t - 1].fam THEN 1 ELSE 0)],
                      i + 1)
             ELSE TwinLoop([st EXCEPT
                      !.TwinArray = Put(@, Size(@),
                          [twinid |-> indp.twinid, sex |-> indp.sex, fam |-> indp.fam]),
                      !.IndArray[i].itwinid = Size(st.TwinArray) + 1],
                      i + 1)

checkTwins(inds, errcnt) ==
    TwinLoop([IndArray |-> inds, TwinArray |-> NoArr, ErrCnt |-> errcnt], 0)

----------------------------------------------------------------------------
(* makePeds, first part: the own-ancestor precheck over perm[]. *)

\* perm[] as first filled: founders from the front, the others (rank + 2*NumInd) from the back
RECURSIVE PermFill(_, _, _, _, _, _)
PermFill(inds, ord, perm, m, n, i) ==
    IF i >= Size(ord) THEN perm
    ELSE IF inds[ord[i]].fam # -1
    THEN PermFill(inds, ord, Put(perm, n, i + 2 * Size(ord)), m, n - 1, i + 1)
    ELSE PermFill(inds, ord, Put(perm, m, i), m + 1, n, i + 1)

\* a release that makes a child ready as soon as one of its parents is placed
PermReleaseAny(inds, fams, ord, perm, m, isave) ==
    LET N == Size(ord)
        dec(i) == LET indp == inds[ord[perm[i] % N]]
                  IN  IF indp.fam = -1 THEN 0
                      ELSE IF isave \in {inds[fams[indp.fam].fa].seq,
                                        inds[fams[indp.fam].mo].seq}
                      THEN 2 * N ELSE 0
    IN  Arr([i \in DOMAIN perm |->
                IF i >= m THEN Max(perm[i] - dec(i), perm[i] % N) ELSE perm[i]])

\* for (i = m; ...): take NumInd off the entry of every child of rank isave
PermRelease(inds, fams, ord, perm, m, isave) ==
    LET N == Size(ord)
        dec(i) == LET indp == inds[ord[perm[i] % N]]
                  IN  IF indp.fam = -1 THEN 0
                      ELSE (IF fams[indp.fam].fa = ord[isave] THEN N ELSE 0) +
                           (IF fams[indp.fam].mo = ord[isave] THEN N ELSE 0)
    IN  Arr([i \in DOMAIN perm |-> IF i >= m THEN perm[i] - dec(i) ELSE perm[i]])

\* the while (1) loop.  ok = FALSE is the fatal "own ancestor" exit and ip the
\* rank it names; perm[m] lies outside perm[] when m = NumInd, where any
\* value it may hold leaves perm[m] % NumInd = 0 since NumInd is then 1.
RECURSIVE PermLoop(_, _, _, _, _)
PermLoop(inds, fams, ord, perm, m) ==
    LET N == Size(ord)
        ready == {k \in m..(N - 1) : perm[k] < N}
    IN  IF ready = {}
        THEN [ok |-> FALSE, ip |-> IF m \in DOMAIN perm THEN perm[m] % N ELSE 0]
        ELSE LET k == CHOOSE x \in ready : \A y \in ready : x <= y
                 isave == perm[k]
                 perm1 == [perm EXCEPT ![k] = perm[m], ![m] = isave]
             IN  IF m + 1 = N - 1 THEN [ok |-> TRUE, ip |-> -1]
                 ELSE PermLoop(inds, fams, ord,
                               PermRelease(inds, fams, ord, perm1, m + 1, isave), m + 1)

precheck(inds, fams, ord) ==
    PermLoop(inds, fams, ord,
             PermFill(inds, ord, NoArr, 0, Size(ord) - 1, 0), 0)

----------------------------------------------------------------------------
(* makePeds, second part: generation numbers. *)

\* the pass with the lower of the parents' generations taken
RECURSIVE GenPassMin(_, _, _, _, _)
GenPassMin(inds, fams, ord, genfnd, i) ==
    IF i >= Size(ord) THEN [IndArray |-> inds, genfnd |-> genfnd]
    ELSE LET x == ord[i]
             indp == inds[x]
             fgen == IF indp.fam # -1 THEN inds[fams[indp.fam].fa].gen ELSE 0
             mgen == IF indp.fam # -1 THEN inds[fams[indp.fam].mo].gen ELSE 0
         IN  IF indp.gen < 0 /\ fgen >= 0 /\ mgen >= 0
             THEN GenPassMin([inds EXCEPT ![x].gen = Min(fgen, mgen) + 1],
                             fams, ord, genfnd + 1, i + 1)
             ELSE GenPassMin(inds, fams, ord, genfnd, i + 1)

\* one for-loop pass over the sorted order; gen is updated in place
RECURSIVE GenPass(_, _, _, _, _)
GenPass(inds, fams, ord, genfnd, i) ==
    IF i >= Size(ord) THEN [IndArray |-> inds, genfnd |-> genfnd]
    ELSE LET x == ord[i]
             indp == inds[x]
             fgen == IF indp.fam # -1 THEN inds[fams[indp.fam].fa].gen ELSE 0
             mgen == IF indp.fam # -1 THEN inds[fams[indp.fam].mo].gen ELSE 0
         IN  IF indp.gen < 0 /\ fgen >= 0 /\ mgen >= 0
             THEN GenPass([inds EXCEPT ![x].gen = Max(fgen, mgen) + 1],
                          fams, ord, genfnd + 1, i + 1)
             ELSE GenPass(inds, fams, ord, genfnd, i + 1)

\* while (genfnd < NumInd): ok = FALSE when a pass assigns nothing
RECURSIVE GenLoop(_, _, _, _, _)
GenLoop(inds, fams, ord, genfnd, passes) ==
    LET After(r) ==
            IF r.genfnd = genfnd
            THEN [ok |-> FALSE, IndArray |-> r.IndArray, passes |-> passes + 1]
            ELSE GenLoop(r.IndArray, fams, ord, r.genfnd, passes + 1)
    IN  IF genfnd >= Size(ord) THEN [ok |-> TRUE, IndArray |-> inds, passes |-> passes]
        ELSE After(GenPass(inds, fams, ord, genfnd, 0))

\* the loop started with no generation counted as found
assignGensFromZero(inds, fams, ord, nfou) == GenLoop(inds, fams, ord, 0, 0)

assignGens(inds, fams, ord, nfou) == GenLoop(inds, fams, ord, nfou, 0)

----------------------------------------------------------------------------
(* makePeds, third part: the five relations and the explicit-stack trace. *)

\* the end of the r_next chain that starts at ind
RECURSIVE ChainEnd(_, _)
ChainEnd(rnext, ind) == IF rnext[ind] = -1 THEN ind ELSE ChainEnd(rnext, rnext[ind])

\* point() without the walk to the end of the chain: the newest offspring
\* replaces the first one
pointLast(rel, curind, ind, w) == [rel EXCEPT ![4][ind] = curind]

\* point(): curind becomes the first offspring of ind, or the last of its chain;
\* rel is relate[], w the index (2 or 3) of the chain used as r_next
point(rel, curind, ind, w) ==
    IF rel[4][ind] = -1 THEN [rel EXCEPT ![4][ind] = curind]
    ELSE [rel EXCEPT ![w][ChainEnd(rel[w], rel[4][ind])] = curind]

RECURSIVE RelateLoop(_, _, _, _, _)
RelateLoop(inds, fams, ord, rel, curind) ==
    LET Mother(rel1, mo) == point([rel1 EXCEPT ![1][curind] = mo], curind, mo, 3)
        Father(fa) == point([rel EXCEPT ![0][curind] = fa], curind, fa, 2)
    IN  IF curind >= Size(ord) THEN rel
        ELSE IF inds[curind].fam = -1
        THEN RelateLoop(inds, fams, ord, rel, curind + 1)
        ELSE RelateLoop(inds, fams, ord,
                 Mother(Father(findInd(inds, Size(ord), ord,
                                       inds[fams[inds[curind].fam].fa].id)),
                        findInd(inds, Size(ord), ord,
                                inds[fams[inds[curind].fam].mo].id)),
                 curind + 1)

\* relate[0..4]: father, mother, next by father, next by mother, first offspring
makeRelate(inds, fams, ord) ==
    RelateLoop(inds, fams, ord,
               Arr([r \in 0..4 |-> [x \in 0..(Size(ord) - 1) |-> -1]]), 0)

\* an iteration that pushes curind whether or not it has a pedigree already
TraceStepAgain(rel, curped, ts) ==
    LET Move(cur, s, t2) ==
            IF s > 5
            THEN [t2 EXCEPT !.pstack = @ - 1, !.ret = (t2.pstack - 1 < 0)]
            ELSE IF s < 5
            THEN [t2 EXCEPT !.curind = rel[s][cur]]
            ELSE IF rel[4][cur] # -1
            THEN [t2 EXCEPT !.curind = IF rel[0][rel[4][cur]] = cur
                                       THEN rel[1][rel[4][cur]]
                                       ELSE rel[0][rel[4][cur]]]
            ELSE [t2 EXCEPT !.curind = -1]
        Visit(cur, t1) ==
            Move(cur, t1.state[cur] + 1,
                 [t1 EXCEPT !.state[cur] = @ + 1, !.steps = @ + 1])
    IN  IF ts.ret THEN ts
        ELSE IF ts.curind = -1
        THEN Visit(ts.stack[ts.pstack], [ts EXCEPT !.curind = ts.stack[ts.pstack]])
        ELSE Visit(ts.curind,
                   [ts EXCEPT
                       !.pstack = @ + 1,
                       !.stack = Put(@, ts.pstack + 1, ts.curind),
                       !.maxdepth = Max(@, ts.pstack + 2),
                       !.pushes[ts.curind] = @ + 1,
                       !.IndArray[ts.curind].ped = curped])

\* one iteration of the for ( ; ; ) loop of trace(); ts holds curind, pstack,
\* stack, state, the Inds and Fams, steps, the number of iterations made,
\* maxdepth, the deepest stack met, pushes, the number of times each
\* individual was put on the stack, and ret, set by the return
TraceStep(rel, curped, ts) ==
    LET Move(cur, s, t2) ==
            IF s > 5
            THEN [t2 EXCEPT !.pstack = @ - 1, !.ret = (t2.pstack - 1 < 0)]
            ELSE IF s < 5
            THEN [t2 EXCEPT !.curind = rel[s][cur]]
            ELSE IF rel[4][cur] # -1
            THEN [t2 EXCEPT !.curind = IF rel[0][rel[4][cur]] = cur
                                       THEN rel[1][rel[4][cur]]
                                       ELSE rel[0][rel[4][cur]]]
            ELSE t2
        Visit(cur, t1) ==
            Move(cur, t1.state[cur] + 1,
                 [t1 EXCEPT !.state[cur] = @ + 1, !.steps = @ + 1])
    IN  IF ts.ret THEN ts
        ELSE IF ts.curind = -1 \/ ts.IndArray[ts.curind].ped # -1
        THEN Visit(ts.stack[ts.pstack], [ts EXCEPT !.curind = ts.stack[ts.pstack]])
        ELSE Visit(ts.curind,
                   [ts EXCEPT
                       !.pstack = @ + 1,
                       !.stack = Put(@, ts.pstack + 1, ts.curind),
                       !.maxdepth = Max(@, ts.pstack + 2),
                       !.pushes[ts.curind] = @ + 1,
                       !.IndArray[ts.curind].ped = curped,
                       !.FamArray = IF ts.IndArray[ts.curind].fam # -1
                                    THEN [@ EXCEPT ![ts.IndArray[ts.curind].fam].ped = curped]
                                    ELSE @])

\* every iteration raises a state[] entry that is at most 5, and state[] starts
\* at -1: trace() has returned after 7 iterations for each individual
TraceMax(inds) == 7 * Size(inds)

\* n iterations of the loop from ts, the first half before the second;
\* TraceStep leaves ts as it is once trace() has returned
RECURSIVE TraceLoop(_, _, _, _)
TraceLoop(rel, curped, ts, n) ==
    IF n <= 0 THEN ts
    ELSE IF n = 1 THEN TraceStep(rel, curped, ts)
    ELSE LET Rest(h) == IF h = h THEN TraceLoop(rel, curped, h, n - (n \div 2)) ELSE h
         IN  Rest(TraceLoop(rel, curped, ts, n \div 2))

\* trace(): the loop, run until its return
trace(rel, curind, curped, ts) ==
    TraceLoop(rel, curped,
              [ts EXCEPT !.curind = curind, !.pstack = -1, !.ret = FALSE],
              TraceMax(ts.IndArray))

\* the for (curind ...) loop that starts one trace per untraced related individual
RECURSIVE PedsLoop(_, _, _, _)
PedsLoop(rel, ts, nped, curind) ==
    IF curind >= Size(ts.IndArray) \/ ~ts.ret THEN [ts |-> ts, nped |-> nped]
    ELSE IF \A r \in 0..4 : rel[r][curind] = -1
    THEN PedsLoop(rel, ts, nped, curind + 1)
    ELSE IF ts.IndArray[curind].ped = -1
    THEN PedsLoop(rel, trace(rel, curind, nped, ts), nped + 1, curind + 1)
    ELSE PedsLoop(rel, ts, nped, curind + 1)

tracePeds(inds, fams, ord) ==
    PedsLoop(makeRelate(inds, fams, ord),
             [curind |-> -1, pstack |-> -1, stack |-> NoArr, ret |-> TRUE,
              state |-> Arr([x \in DOMAIN inds |-> -1]),
              IndArray |-> Arr([x \in DOMAIN inds |-> [inds[x] EXCEPT !.ped = -1]]),
              FamArray |-> fams, steps |-> 0, maxdepth |-> 0,
              pushes |-> Arr([x \in DOMAIN inds |-> 0])],
             0, 0)

----------------------------------------------------------------------------
(* makePeds, last part: the Ped records and their counts. *)

\* a freshly allocated Ped
NewPed ==
    [fam1 |-> Uninit, nfam |-> Uninit, nind |-> Uninit, nfou |-> Uninit,
     seq1 |-> Uninit, inbred |-> Uninit, hasloops |-> Uninit,
     nlbrk |-> Uninit, lbrkind |-> Uninit]

FamsOfPed(fams, p) == {j \in DOMAIN fams : fams[j].ped = p}

\* the traced pedigrees: families counted, numbered and chained through next
tracedPeds(fams, nped) ==
    Arr([p \in 0..(nped - 1) |->
        LET fs == FamsOfPed(fams, p)
        IN  [NewPed EXCEPT
                !.nfam = Cardinality(fs), !.nind = 0, !.nfou = 0,
                !.fam1 = IF fs = {} THEN Uninit
                         ELSE CHOOSE j \in fs : \A k \in fs : j <= k]])

chainFams(fams, nped) ==
    Arr([j \in DOMAIN fams |->
        IF fams[j].ped \in 0..(nped - 1)
        THEN LET later == {k \in FamsOfPed(fams, fams[j].ped) : k > j}
             IN  [fams[j] EXCEPT
                     !.seq = Cardinality({k \in FamsOfPed(fams, fams[j].ped) : k < j}),
                     !.next = IF later = {} THEN fams[j].next
                              ELSE CHOOSE k \in later : \A l \in later : k <= l]
        ELSE fams[j]])

\* a last loop that lets an untraced individual join pedigree 0 when there is one
RECURSIVE CountLoopJoin(_, _)
CountLoopJoin(st, i) ==
    IF i >= Size(st.IndArray) THEN st
    ELSE LET indp == st.IndArray[i]
             p == IF indp.ped = -1 THEN 0 ELSE indp.ped
         IN  IF indp.ped = -1 /\ st.NumPed = 0
             THEN CountLoopJoin([st EXCEPT
                      !.PedArray = Put(@, st.NumPed,
                          [NewPed EXCEPT !.nind = 1, !.nfam = 0, !.nfou = 1, !.fam1 = -1]),
                      !.IndArray[i].ped = st.NumPed,
                      !.NumPed = @ + 1], i + 1)
             ELSE CountLoopJoin([st EXCEPT
                      !.IndArray[i].ped = p,
                      !.PedArray[p].nind = @ + 1,
                      !.PedArray[p].nfou = IF indp.fam = -1 THEN @ + 1 ELSE @],
                      i + 1)

\* the count loop that takes every member of a traced pedigree for a founder
RECURSIVE CountLoopAllFounders(_, _)
CountLoopAllFounders(st, i) ==
    IF i >= Size(st.IndArray) THEN st
    ELSE LET indp == st.IndArray[i]
         IN  IF indp.ped = -1
             THEN CountLoopAllFounders([st EXCEPT
                      !.PedArray = Put(@, st.NumPed,
                          [NewPed EXCEPT !.nind = 1, !.nfam = 0, !.nfou = 1, !.fam1 = -1]),
                      !.IndArray[i].ped = st.NumPed,
                      !.NumPed = @ + 1], i + 1)
             ELSE CountLoopAllFounders([st EXCEPT
                      !.PedArray[indp.ped].nind = @ + 1,
                      !.PedArray[indp.ped].nfou = @ + 1],
                      i + 1)

\* the last loop: a Ped of its own for every untraced individual, counts for the rest
RECURSIVE CountLoop(_, _)
CountLoop(st, i) ==
    IF i >= Size(st.IndArray) THEN st
    ELSE LET indp == st.IndArray[i]
         IN  IF indp.ped = -1
             THEN CountLoop([st EXCEPT
                      !.PedArray = Put(@, st.NumPed,
                          [NewPed EXCEPT !.nind = 1, !.nfam = 0, !.nfou = 1, !.fam1 = -1]),
                      !.IndArray[i].ped = st.NumPed,
                      !.NumPed = @ + 1], i + 1)
             ELSE CountLoop([st EXCEPT
                      !.PedArray[indp.ped].nind = @ + 1,
                      !.PedArray[indp.ped].nfou = IF indp.fam = -1 THEN @ + 1 ELSE @],
                      i + 1)

buildPeds(inds, fams, nped) ==
    CountLoop([IndArray |-> inds, FamArray |-> chainFams(fams, nped),
               PedArray |-> tracedPeds(fams, nped), NumPed |-> nped], 0)

\* makePeds as a whole; fatal names the fatalError() taken, if any
makePeds(inds, fams, ord, nfou) ==
    LET Built(bp) ==
            [fatal |-> "", id |-> <<>>,
             IndArray |-> bp.IndArray, FamArray |-> bp.FamArray,
             PedArray |-> bp.PedArray, NumPed |-> bp.NumPed]
        Traced(tr) ==
            IF tr.ts.ret
            THEN Built(buildPeds(tr.ts.IndArray, tr.ts.FamArray, tr.nped))
            ELSE [fatal |-> "", id |-> <<>>,
                  IndArray |-> tr.ts.IndArray, FamArray |-> tr.ts.FamArray,
                  PedArray |-> NoArr, NumPed |-> -1]
        Gens(gen) ==
            IF ~gen.ok
            THEN [fatal |-> "generation numbers", id |-> <<>>,
                  IndArray |-> gen.IndArray, FamArray |-> fams, PedArray |-> NoArr,
                  NumPed |-> 0]
            ELSE Traced(tracePeds(gen.IndArray, fams, ord))
        Checked(pre) ==
            IF ~pre.ok
            THEN [fatal |-> "own ancestor", id |-> inds[ord[pre.ip]].id,
                  IndArray |-> inds, FamArray |-> fams, PedArray |-> NoArr, NumPed |-> 0]
            ELSE Gens(assignGens(inds, fams, ord, nfou))
    IN  Checked(precheck(inds, fams, ord))

----------------------------------------------------------------------------
(* checkLooping: arcs against nodes, the family links, leaf stripping and  *)
(* the count of loop-breakers.  ls holds linkList, nlink and linkInd;      *)
(* families are indexed by their seq, individuals by their seq (sort rank).*)

\* the families of a pedigree in chain order, from fam1 through next
RECURSIVE FamChain(_, _)
FamChain(fams, f) == IF f = -1 THEN <<>> ELSE <<f>> \o FamChain(fams, fams[f].next)

\* narcs with children + 3 summed
RECURSIVE SumArcsThree(_, _)
SumArcsThree(fams, f) ==
    IF f = -1 THEN 0 ELSE fams[f].nkid + 3 + SumArcsThree(fams, fams[f].next)

\* narcs: children + 2 summed over the chain
RECURSIVE SumArcs(_, _)
SumArcs(fams, f) ==
    IF f = -1 THEN 0 ELSE fams[f].nkid + 2 + SumArcs(fams, fams[f].next)

addLink(ls, fam1, fam2, ind) ==
    LET found == \E k \in 1..Len(ls.linkList[fam1]) : ls.linkList[fam1][k].ind = ind
    IN  [linkList |-> [ls.linkList EXCEPT ![fam1] = Append(@, [ind |-> ind, fam |-> fam2])],
         linkInd |-> [ls.linkInd EXCEPT ![ind] = @ + 1],
         nlink |-> IF found THEN ls.nlink ELSE [ls.nlink EXCEPT ![fam1] = @ + 1]]

\* the two addLink() calls that join fam1 and fam2 through ind
addPair(ls, fam1, fam2, ind) == addLink(addLink(ls, fam1, fam2, ind), fam2, fam1, ind)

\* the sequence s without its k-th element
DropAt(s, k) == SubSeq(s, 1, k - 1) \o SubSeq(s, k + 1, Len(s))

\* rmLink that leaves linkInd as it was
rmLinkNoCount(ls, fam1, fam2) ==
    LET list == ls.linkList[fam1]
        hits == {k \in 1..Len(list) : list[k].fam = fam2}
        Left(ind, rest, still) ==
            [linkList |-> [ls.linkList EXCEPT
                              ![fam1] = IF ~still /\ ls.nlink[fam1] = 1
                                        THEN <<>> ELSE rest],
             linkInd |-> ls.linkInd,
             nlink |-> [ls.nlink EXCEPT ![fam1] = IF still THEN @ ELSE @ - 1]]
        Unlink(ind, rest) ==
            Left(ind, rest, \E m \in 1..Len(rest) : rest[m].ind = ind)
        Cut(k) == Unlink(list[k].ind, DropAt(list, k))
    IN  IF ls.nlink[fam1] = 0 \/ hits = {} THEN ls
        ELSE Cut(CHOOSE x \in hits : \A y \in hits : x <= y)

rmLink(ls, fam1, fam2) ==
    LET list == ls.linkList[fam1]
        hits == {k \in 1..Len(list) : list[k].fam = fam2}
        Left(ind, rest, still) ==
            [linkList |-> [ls.linkList EXCEPT
                              ![fam1] = IF ~still /\ ls.nlink[fam1] = 1
                                        THEN <<>> ELSE rest],
             linkInd |-> [ls.linkInd EXCEPT ![ind] = @ - 1],
             nlink |-> [ls.nlink EXCEPT ![fam1] = IF still THEN @ ELSE @ - 1]]
        Unlink(ind, rest) ==
            Left(ind, rest, \E m \in 1..Len(rest) : rest[m].ind = ind)
        Cut(k) == Unlink(list[k].ind, DropAt(list, k))
    IN  IF ls.nlink[fam1] = 0 \/ hits = {} THEN ls
        ELSE Cut(CHOOSE x \in hits : \A y \in hits : x <= y)

\* the links famp shares with the families before it in the chain
RECURSIVE SharedLinks(_, _, _, _, _)
SharedLinks(ls, inds, fams, famp, before) ==
    LET ByFather(famp2) ==
            IF fams[famp2].fa = fams[famp].fa
            THEN addPair(ls, fams[famp].seq, fams[famp2].seq, inds[fams[famp2].fa].seq)
            ELSE ls
        ByMother(ls1, famp2) ==
            IF fams[famp2].mo = fams[famp].mo
            THEN addPair(ls1, fams[famp].seq, fams[famp2].seq, inds[fams[famp2].mo].seq)
            ELSE ls1
    IN  IF before = <<>> THEN ls
        ELSE SharedLinks(ByMother(ByFather(Head(before)), Head(before)),
                         inds, fams, famp, Tail(before))

\* the while (famp) loop of makeLinks over the chain, k the position reached
RECURSIVE LinkFams(_, _, _, _, _)
LinkFams(ls, inds, fams, chain, k) ==
    LET ToFather(famp, fa) ==
            IF fa.fam # -1
            THEN addPair(ls, fams[famp].seq, fams[fa.fam].seq, fa.seq)
            ELSE ls
        ToMother(ls1, famp, mo) ==
            IF mo.fam # -1
            THEN addPair(ls1, fams[famp].seq, fams[mo.fam].seq, mo.seq)
            ELSE ls1
        Parents(famp) ==
            ToMother(ToFather(famp, inds[fams[famp].fa]), famp, inds[fams[famp].mo])
    IN  IF k > Len(chain) THEN ls
        ELSE LinkFams(SharedLinks(Parents(chain[k]), inds, fams, chain[k],
                                  SubSeq(chain, 1, k - 1)),
                      inds, fams, chain, k + 1)

RECURSIVE RmAll(_, _, _, _)
RmAll(ls, nfam, i, j) ==
    IF j >= nfam THEN ls ELSE RmAll(rmLink(ls, j, i), nfam, i, j + 1)

\* linkInd after the records of list are freed
RECURSIVE FreeList(_, _)
FreeList(linkInd, list) ==
    IF list = <<>> THEN linkInd
    ELSE FreeList([linkInd EXCEPT ![Head(list).ind] = @ - 1], Tail(list))

\* strip family i: its links leave the other families, then its own list goes
StripFam(ls, nfam, i) ==
    LET Freed(ls1) ==
            [linkList |-> [ls1.linkList EXCEPT ![i] = <<>>],
             linkInd |-> FreeList(ls1.linkInd, ls1.linkList[i]),
             nlink |-> [ls1.nlink EXCEPT ![i] = 0]]
    IN  Freed(RmAll(ls, nfam, i, 0))

\* one for-loop pass of the do-while; done tells whether nothing was stripped
RECURSIVE StripPass(_, _, _, _)
StripPass(ls, nfam, i, done) ==
    IF i >= nfam THEN [ls |-> ls, done |-> done]
    ELSE IF ls.nlink[i] = 1 THEN StripPass(StripFam(ls, nfam, i), nfam, i + 1, FALSE)
    ELSE StripPass(ls, nfam, i + 1, done)

RECURSIVE StripLoop(_, _)
StripLoop(ls, nfam) ==
    LET Again(r) == IF r.done THEN r.ls ELSE StripLoop(r.ls, nfam)
    IN  Again(StripPass(ls, nfam, 0, TRUE))

NoLinks(nfam, nind) ==
    [linkList |-> Arr([f \in 0..(nfam - 1) |-> <<>>]),
     linkInd |-> Arr([x \in 0..(nind - 1) |-> 0]),
     nlink |-> Arr([f \in 0..(nfam - 1) |-> 0])]

\* the links of pedigree ped before the leaf stripping
rawLinks(inds, fams, peds, ped) ==
    LinkFams(NoLinks(Size(fams), Size(inds)), inds, fams,
             FamChain(fams, peds[ped].fam1), 1)

makeLinks(inds, fams, peds, ped) ==
    StripLoop(rawLinks(inds, fams, peds, ped), Size(fams))

\* the sum of nlink over the families in S
RECURSIVE SumLinks(_, _)
SumLinks(nlink, S) ==
    IF S = {} THEN 0
    ELSE LET f == CHOOSE x \in S : TRUE
         IN  nlink[f] + SumLinks(nlink, S \ {f})

\* findBreaks with narcs - nodes returned
findBreaksNoOne(ls) ==
    LET Breaks(narcs, nodes) == IF narcs >= nodes THEN narcs - nodes ELSE Uninit
    IN  Breaks(SumLinks(ls.nlink, {f \in DOMAIN ls.nlink : ls.nlink[f] # 0}),
               Cardinality({f \in DOMAIN ls.nlink : ls.nlink[f] # 0}) +
               Cardinality({x \in DOMAIN ls.linkInd : ls.linkInd[x] # 0}))

\* findBreaks: nlbrk is set only when narcs >= nodes, else it is returned unset
findBreaks(ls) ==
    LET Breaks(narcs, nodes) == IF narcs >= nodes THEN narcs - nodes + 1 ELSE Uninit
    IN  Breaks(SumLinks(ls.nlink, {f \in DOMAIN ls.nlink : ls.nlink[f] # 0}),
               Cardinality({f \in DOMAIN ls.nlink : ls.nlink[f] # 0}) +
               Cardinality({x \in DOMAIN ls.linkInd : ls.linkInd[x] # 0}))

\* the candidate searched when one breaker is needed: an index, or Uninit when
\* no individual qualifies and lbrkind keeps what malloc() left in it
lbrkCandidate(ls, inds, fams, ord) ==
    LET ok == {j \in DOMAIN ord :
                  /\ ls.linkInd[j] # 0
                  /\ inds[ord[j]].fam # -1
                  /\ ls.nlink[fams[inds[ord[j]].fam].seq] # 0}
    IN  IF ok = {} THEN Uninit ELSE ord[CHOOSE j \in ok : \A k \in ok : j <= k]

\* the for loop of checkLooping over the pedigrees; junk is the value an
\* unset nlbrk turns out to hold
RECURSIVE LoopPeds(_, _, _, _, _, _)
LoopPeds(st, inds, fams, ord, junk, i) ==
    LET Set(ls, fb, nlbrk) ==
            LoopPeds([st EXCEPT
                         !.PedArray[i].hasloops = TRUE,
                         !.PedArray[i].nlbrk = nlbrk,
                         !.PedArray[i].lbrkind =
                             IF nlbrk = 1 THEN lbrkCandidate(ls, inds, fams, ord)
                             ELSE @,
                         !.MaxLbrk = IF nlbrk = Uninit THEN @ ELSE Max(nlbrk, @),
                         !.unset = @ \/ fb = Uninit,
                         !.links = Put(@, i, ls)],
                     inds, fams, ord, junk, i + 1)
        Broken(ls, fb) == Set(ls, fb, IF fb = Uninit THEN junk ELSE fb)
        Looped(ls) == Broken(ls, findBreaks(ls))
    IN  IF i >= Size(st.PedArray) THEN st
        ELSE IF SumArcs(fams, st.PedArray[i].fam1)
                    < st.PedArray[i].nind + st.PedArray[i].nfam
        THEN LoopPeds([st EXCEPT !.PedArray[i].hasloops = FALSE,
                                 !.PedArray[i].nlbrk = 0,
                                 !.links = Put(@, i, NoLinks(0, 0))],
                      inds, fams, ord, junk, i + 1)
        ELSE Looped(makeLinks(inds, fams, st.PedArray, i))

checkLooping(inds, fams, peds, ord, junk) ==
    LoopPeds([PedArray |-> peds, MaxLbrk |-> 0, links |-> NoArr, unset |-> FALSE],
             inds, fams, ord, junk, 0)

\* the values an unset int may turn out to hold
Junk == -1..2

----------------------------------------------------------------------------
(* assignSeq: the final order, sorted on the printed key                   *)
(* (pedigree, generation, family seq, identity rank).                      *)

\* the decimal digits of n >= 0, as character codes
RECURSIVE Digits(_)
Digits(n) == IF n < 10 THEN <<Ch0 + n>> ELSE Digits(n \div 10) \o <<Ch0 + (n % 10)>>

\* (int)(log(n)/log(10.) + 1): the number of decimal digits of n >= 1
Width(n) == Len(Digits(n))

RECURSIVE Spaces(_)
Spaces(k) == IF k <= 0 THEN <<>> ELSE <<SP>> \o Spaces(k - 1)

\* sprintf "%wd": right-justified in w columns, wider when it does not fit
FmtD(w, n) ==
    LET Pad(d) == Spaces(w - Len(d)) \o d
    IN  Pad(IF n < 0 THEN <<45>> \o Digits(0 - n) ELSE Digits(n))

\* a key without the generation number
seqKeyNoGen(inds, fams, n, ord, nped, i) ==
    LET Key(w1, w2, famseq, indseq) ==
            FmtD(w1, inds[i].ped) \o FmtD(w2, famseq) \o FmtD(w2, indseq)
    IN  Key(Width(nped), Width(n),
            IF inds[i].fam # -1 THEN fams[inds[i].fam].seq ELSE 0,
            inds[findInd(inds, n, ord, inds[i].id)].seq)

seqKey(inds, fams, n, ord, nped, i) ==
    LET Key(w1, w2, famseq, indseq) ==
            FmtD(w1, inds[i].ped) \o FmtD(w2, inds[i].gen) \o FmtD(w2, famseq)
            \o FmtD(w2, indseq)
    IN  Key(Width(nped), Width(n),
            IF inds[i].fam # -1 THEN fams[inds[i].fam].seq ELSE 0,
            inds[findInd(inds, n, ord, inds[i].id)].seq)

\* the loop that numbers the individuals and notes where each pedigree starts
RECURSIVE SeqLoop(_, _, _, _)
SeqLoop(st, iseq, curped, i) ==
    LET Step(p) ==
            SeqLoop([st EXCEPT !.PedArray[p].seq1 = IF p # curped THEN i ELSE @,
                               !.IndArray[iseq[i]].seq = i],
                    iseq, p, i + 1)
    IN  IF i >= Size(iseq) THEN st ELSE Step(st.IndArray[iseq[i]].ped)

assignSeq(inds, fams, peds, n, ord, nped) ==
    LET Numbered(iseq, st) ==
            [IndSeq |-> iseq, IndArray |-> st.IndArray, PedArray |-> st.PedArray]
        Sorted(iseq) ==
            Numbered(iseq,
                     SeqLoop([IndArray |-> inds,
                              PedArray |-> [peds EXCEPT ![inds[iseq[0]].ped].seq1 = 0]],
                             iseq, inds[iseq[0]].ped, 0))
    IN  Sorted(qSort(Arr([i \in 0..(n - 1) |-> seqKey(inds, fams, n, ord, nped, i)]),
                     n, FALSE))

----------------------------------------------------------------------------
(* calcKin2: the kinship matrix.  A coefficient x is held as x * KinUnit;  *)
(* every value met within the bounds is a multiple of a small power of 1/2 *)
(* and is exact in a float.                                                *)

KinUnit == 2 ^ 12

\* x / d, defined only when the division is exact
Exact(x, d) == CHOOSE h \in {x \div d} : h * d = x

\* kin2[max(a,b)][min(a,b)]
K(kin, a, b) == kin[Max(a, b)][Min(a, b)]

\* itwin[]: the first individual, in sequence order, of each twin group
itwinOf(inds, iseq) ==
    Arr([i \in DOMAIN iseq |->
        LET t == inds[iseq[i]].itwinid
            grp == {j \in DOMAIN iseq : inds[iseq[j]].itwinid = t}
        IN  IF t = 0 THEN i ELSE CHOOSE j \in grp : \A k \in grp : j <= k])

\* kin2 as allocated: 1 on the diagonal of a founder, 0 elsewhere
kinInit(inds, iseq) ==
    Arr([i \in DOMAIN iseq |->
        [j \in 0..i |-> IF j = i /\ inds[iseq[i]].fam = -1 THEN KinUnit ELSE 0]])

\* the row with the father's coefficient alone
RECURSIVE KinRowFather(_, _, _, _, _, _)
KinRowFather(kin, itw, i, ifa, imo, j) ==
    IF j >= Size(itw) THEN kin
    ELSE IF itw[j] # j \/ kin[j][j] = 0 THEN KinRowFather(kin, itw, i, ifa, imo, j + 1)
    ELSE KinRowFather([kin EXCEPT ![Max(i, j)][Min(i, j)] = K(kin, ifa, j)],
                      itw, i, ifa, imo, j + 1)

\* the for (j ...) loop: the coefficients of i with every resolved j
RECURSIVE KinRow(_, _, _, _, _, _)
KinRow(kin, itw, i, ifa, imo, j) ==
    IF j >= Size(itw) THEN kin
    ELSE IF itw[j] # j \/ kin[j][j] = 0 THEN KinRow(kin, itw, i, ifa, imo, j + 1)
    ELSE KinRow([kin EXCEPT ![Max(i, j)][Min(i, j)] =
                     Exact(K(kin, ifa, j) + K(kin, imo, j), 2)],
                itw, i, ifa, imo, j + 1)

\* the pass with the self-coefficient taken as 1 + Phi2(father, mother)
RECURSIVE KinPassWhole(_, _, _, _, _, _)
KinPassWhole(kin, inds, fams, iseq, itw, st) ==
    LET Self(k1, ifa, imo) ==
            [k1 EXCEPT ![st.i][st.i] = KinUnit + K(k1, ifa, imo)]
        Resolve(ifa, imo) ==
            IF kin[ifa][ifa] = 0 \/ kin[imo][imo] = 0
            THEN KinPassWhole(kin, inds, fams, iseq, itw, [st EXCEPT !.i = @ + 1])
            ELSE KinPassWhole(Self(KinRow(kin, itw, st.i, ifa, imo, 0), ifa, imo),
                              inds, fams, iseq, itw,
                              [i |-> st.i + 1, count |-> st.count + 1])
    IN  IF st.i >= Size(iseq) THEN [kin |-> kin, count |-> st.count]
        ELSE IF itw[st.i] # st.i \/ kin[st.i][st.i] # 0 \/ inds[iseq[st.i]].fam = -1
        THEN KinPassWhole(kin, inds, fams, iseq, itw, [st EXCEPT !.i = @ + 1])
        ELSE Resolve(itw[inds[fams[inds[iseq[st.i]].fam].fa].seq],
                     itw[inds[fams[inds[iseq[st.i]].fam].mo].seq])

\* one pass of the do-while over the individuals in sequence order
RECURSIVE KinPass(_, _, _, _, _, _)
KinPass(kin, inds, fams, iseq, itw, st) ==
    LET Self(k1, ifa, imo) ==
            [k1 EXCEPT ![st.i][st.i] = KinUnit + Exact(K(k1, ifa, imo), 2)]
        Resolve(ifa, imo) ==
            IF kin[ifa][ifa] = 0 \/ kin[imo][imo] = 0
            THEN KinPass(kin, inds, fams, iseq, itw, [st EXCEPT !.i = @ + 1])
            ELSE KinPass(Self(KinRow(kin, itw, st.i, ifa, imo, 0), ifa, imo),
                         inds, fams, iseq, itw,
                         [i |-> st.i + 1, count |-> st.count + 1])
    IN  IF st.i >= Size(iseq) THEN [kin |-> kin, count |-> st.count]
        ELSE IF itw[st.i] # st.i \/ kin[st.i][st.i] # 0 \/ inds[iseq[st.i]].fam = -1
        THEN KinPass(kin, inds, fams, iseq, itw, [st EXCEPT !.i = @ + 1])
        ELSE Resolve(itw[inds[fams[inds[iseq[st.i]].fam].fa].seq],
                     itw[inds[fams[inds[iseq[st.i]].fam].mo].seq])

\* do ... while (count < n); hang = TRUE when a pass resolves nobody and the
\* loop can never end
RECURSIVE KinLoop(_, _, _, _, _, _, _)
KinLoop(kin, inds, fams, iseq, itw, count, n) ==
    LET While(r) ==
            IF r.count >= n THEN [kin |-> r.kin, hang |-> FALSE]
            ELSE IF r.count = count THEN [kin |-> r.kin, hang |-> TRUE]
            ELSE KinLoop(r.kin, inds, fams, iseq, itw, r.count, n)
    IN  While(KinPass(kin, inds, fams, iseq, itw, [i |-> 0, count |-> count]))

\* no copy: every twin keeps the row the do-while left it
kinNoTwins(kin, itw) == kin

\* the copy that gives every twin the row of its group's first member
kinTwins(kin, itw) ==
    Arr([i \in DOMAIN kin |-> [j \in 0..i |-> K(kin, itw[i], itw[j])]])

\* delta7 of the pair i > j, in units of 1/KinUnit
delta7(kin, inds, fams, iseq, itw, i, j) ==
    IF itw[i] = itw[j] THEN KinUnit
    ELSE IF inds[iseq[i]].fam # -1 /\ inds[iseq[j]].fam # -1
    THEN LET Quarter(ifa, imo, jfa, jmo) ==
                 Exact(K(kin, ifa, jfa) * K(kin, imo, jmo) +
                       K(kin, ifa, jmo) * K(kin, imo, jfa), 4 * KinUnit)
         IN  Quarter(inds[fams[inds[iseq[i]].fam].fa].seq,
                     inds[fams[inds[iseq[i]].fam].mo].seq,
                     inds[fams[inds[iseq[j]].fam].fa].seq,
                     inds[fams[inds[iseq[j]].fam].mo].seq)
    ELSE 0

\* the lines of file phi2, in the order written: row i, columns j < i of the
\* same pedigree with a non-zero coefficient, then the diagonal
RECURSIVE Phi2Lines(_, _, _, _, _, _, _)
Phi2Lines(kin, inds, fams, iseq, itw, i, j) ==
    IF i >= Size(iseq) THEN <<>>
    ELSE IF j = i
    THEN <<[i |-> i + 1, j |-> i + 1, phi2 |-> kin[i][i], delta7 |-> KinUnit]>>
         \o Phi2Lines(kin, inds, fams, iseq, itw, i + 1, 0)
    ELSE IF inds[iseq[i]].ped = inds[iseq[j]].ped /\ kin[i][j] # 0
    THEN <<[i |-> i + 1, j |-> j + 1, phi2 |-> kin[i][j],
            delta7 |-> delta7(kin, inds, fams, iseq, itw, i, j)]>>
         \o Phi2Lines(kin, inds, fams, iseq, itw, i, j + 1)
    ELSE Phi2Lines(kin, inds, fams, iseq, itw, i, j + 1)

\* the flags with kin2[i][i] >= 1 tested
inbredFlagsGeq(kin, inds, iseq, peds) ==
    Arr([p \in DOMAIN peds |->
        [peds[p] EXCEPT !.inbred =
            \E i \in DOMAIN iseq : inds[iseq[i]].ped = p /\ kin[i][i] >= KinUnit]])

\* flags that are raised only in a pedigree whose loop-breakers are counted
inbredFlagsLooped(kin, inds, iseq, peds) ==
    Arr([p \in DOMAIN peds |->
        [peds[p] EXCEPT !.inbred =
            /\ peds[p].nlbrk >= 1
            /\ \E i \in DOMAIN iseq : inds[iseq[i]].ped = p /\ kin[i][i] > KinUnit]])

\* the inbred flag of every pedigree: some member's self-coefficient exceeds 1
inbredFlags(kin, inds, iseq, peds) ==
    Arr([p \in DOMAIN peds |->
        [peds[p] EXCEPT !.inbred =
            \E i \in DOMAIN iseq : inds[iseq[i]].ped = p /\ kin[i][i] > KinUnit]])

calcKin2(inds, fams, peds, iseq) ==
    LET Output(itw, kin) ==
            [hang |-> FALSE, kin2 |-> kin,
             phi2 |-> Phi2Lines(kin, inds, fams, iseq, itw, 0, 0),
             PedArray |-> inbredFlags(kin, inds, iseq, peds),
             isInbred |-> \E i \in DOMAIN iseq : kin[i][i] > KinUnit]
        Resolved(itw, r) ==
            IF r.hang THEN [hang |-> TRUE, kin2 |-> r.kin, phi2 |-> <<>>,
                            PedArray |-> peds, isInbred |-> FALSE]
            ELSE Output(itw, kinTwins(r.kin, itw))
        Twins(itw) ==
            Resolved(itw,
                     KinLoop(kinInit(inds, iseq), inds, fams, iseq, itw,
                             Cardinality({i \in DOMAIN iseq : inds[iseq[i]].fam = -1}),
                             Cardinality({i \in DOMAIN iseq : itw[i] = i})))
    IN  Twins(itwinOf(inds, iseq))

----------------------------------------------------------------------------
(* writeInfo: the summary of the run, for which every pedigree with one    *)
(* founder is counted as a family.                                         *)

\* the loop with every pedigree that has a founder counted as a family
writeInfoAny(peds, numfam) ==
    [PedArray |-> Arr([p \in DOMAIN peds |->
                     IF peds[p].nfou >= 1 THEN [peds[p] EXCEPT !.nfam = 1]
                     ELSE peds[p]]),
     NumFam |-> numfam + Cardinality({p \in DOMAIN peds : peds[p].nfou >= 1})]

\* the for loop "add singletons to count of nuclear families"
writeInfo(peds, numfam) ==
    [PedArray |-> Arr([p \in DOMAIN peds |->
                     IF peds[p].nfou = 1 THEN [peds[p] EXCEPT !.nfam = 1]
                     ELSE peds[p]]),
     NumFam |-> numfam + Cardinality({p \in DOMAIN peds : peds[p].nfou = 1})]

----------------------------------------------------------------------------
(* The run: main() calls one function after the other. *)

NoMsg == [msg |-> "", id |-> <<>>]
DataErrors == [msg |-> "data errors found", id |-> <<>>]

Init ==
    /\ pedFile \in Files
    /\ pc = "getPedData"
    /\ IndArray = NoArr /\ NumInd = 0 /\ NumFou = 0
    /\ famList = NoArr /\ idFam = NoArr /\ IndSort = NoArr
    /\ FamArray = NoArr /\ NumFam = 0 /\ TwinArray = NoArr
    /\ PedArray = NoArr /\ NumPed = 0 /\ MaxLbrk = 0 /\ links = NoArr
    /\ IndSeq = NoArr /\ kin2 = NoArr /\ phi2 = <<>> /\ isInbred = FALSE
    /\ ErrCnt = 0 /\ WrnCnt = 0 /\ ErrMsg = NoMsg
    /\ qVals = NoArr /\ qNumeric = FALSE /\ qOrd = NoArr

\* the checkpoint that ends a phase: fatalError() when errors were logged
Checkpoint(errcnt, next) ==
    /\ ErrCnt' = errcnt
    /\ IF errcnt # 0 THEN pc' = "fatal" /\ ErrMsg' = DataErrors
       ELSE pc' = next /\ ErrMsg' = ErrMsg

GetPedData ==
    /\ pc = "getPedData"
    /\ LET Read(r) ==
               /\ IndArray' = r.IndArray /\ NumInd' = r.NumInd /\ NumFou' = r.NumFou
               /\ famList' = r.famList /\ idFam' = r.idFam
               /\ Checkpoint(r.ErrCnt, "sortInds")
       IN  Read(getPedData(pedFile, ErrCnt))
    /\ UNCHANGED <<qVals, qNumeric, qOrd, pedFile, IndSort, FamArray, NumFam, TwinArray, PedArray,
                   NumPed, MaxLbrk, links, IndSeq, kin2, phi2, isInbred, WrnCnt>>

\* sortInds(), called before each of the two makeFams() calls
SortInds ==
    /\ pc \in {"sortInds", "sortInds2"}
    /\ LET Sorted(r) ==
               /\ IndSort' = r.IndSort /\ IndArray' = r.IndArray
               /\ Checkpoint(r.ErrCnt,
                             IF pc = "sortInds" THEN "makeFams" ELSE "makeFams2")
       IN  Sorted(sortInds(IndArray, NumInd, ErrCnt))
    /\ UNCHANGED <<qVals, qNumeric, qOrd, pedFile, NumInd, NumFou, famList, idFam, FamArray, NumFam,
                   TwinArray, PedArray, NumPed, MaxLbrk, links, IndSeq, kin2,
                   phi2, isInbred, WrnCnt>>

\* makeFams(); main() repeats sortInds() and makeFams() once when it returns 1
MakeFams ==
    /\ pc \in {"makeFams", "makeFams2"}
    /\ LET Made(r) ==
               /\ IndArray' = r.IndArray /\ NumInd' = r.tNumInd /\ NumFou' = r.NumFou
               /\ idFam' = r.idFam /\ FamArray' = r.FamArray /\ NumFam' = r.NumFam
               /\ WrnCnt' = r.WrnCnt
               /\ Checkpoint(ErrCnt, IF r.redo = 1 /\ pc = "makeFams" THEN "sortInds2"
                                     ELSE "checkTwins")
       IN  Made(makeFams(IndArray, NumInd, NumFou, IndSort, famList, idFam, WrnCnt))
    /\ UNCHANGED <<qVals, qNumeric, qOrd, pedFile, famList, IndSort, TwinArray, PedArray, NumPed,
                   MaxLbrk, links, IndSeq, kin2, phi2, isInbred>>

CheckTwins ==
    /\ pc = "checkTwins"
    /\ LET Checked(r) ==
               /\ IndArray' = r.IndArray /\ TwinArray' = r.TwinArray
               /\ Checkpoint(r.ErrCnt, "makePeds")
       IN  Checked(checkTwins(IndArray, ErrCnt))
    /\ UNCHANGED <<qVals, qNumeric, qOrd, pedFile, NumInd, NumFou, famList, idFam, IndSort, FamArray,
                   NumFam, PedArray, NumPed, MaxLbrk, links, IndSeq, kin2, phi2,
                   isInbred, WrnCnt>>

\* makePeds(); a trace() that does not return leaves the run inside it
MakePeds ==
    /\ pc = "makePeds"
    /\ LET Made(r) ==
               /\ IndArray' = r.IndArray /\ FamArray' = r.FamArray
               /\ PedArray' = r.PedArray /\ NumPed' = r.NumPed
               /\ IF r.fatal # ""
                  THEN pc' = "fatal" /\ ErrMsg' = [msg |-> r.fatal, id |-> r.id]
                  ELSE IF r.NumPed = -1 THEN pc' = "trace" /\ ErrMsg' = ErrMsg
                  ELSE pc' = "checkLooping" /\ ErrMsg' = ErrMsg
       IN  Made(makePeds(IndArray, FamArray, IndSort, NumFou))
    /\ UNCHANGED <<qVals, qNumeric, qOrd, pedFile, NumInd, NumFou, famList, idFam, IndSort, NumFam,
                   TwinArray, MaxLbrk, links, IndSeq, kin2, phi2, isInbred,
                   ErrCnt, WrnCnt>>

\* checkLooping(); an nlbrk that findBreaks() returns unset holds any value
CheckLooping ==
    /\ pc = "checkLooping"
    /\ LET Checked(r) ==
               PedArray' = r.PedArray /\ MaxLbrk' = r.MaxLbrk /\ links' = r.links
       IN  \E junk \in Junk :
               Checked(checkLooping(IndArray, FamArray, PedArray, IndSort, junk))
    /\ pc' = "assignSeq"
    /\ UNCHANGED <<qVals, qNumeric, qOrd, pedFile, IndArray, NumInd, NumFou, famList, idFam, IndSort,
                   FamArray, NumFam, TwinArray, NumPed, IndSeq, kin2, phi2,
                   isInbred, ErrCnt, WrnCnt, ErrMsg>>

AssignSeq ==
    /\ pc = "assignSeq"
    /\ LET Assigned(r) ==
               IndSeq' = r.IndSeq /\ IndArray' = r.IndArray /\ PedArray' = r.PedArray
       IN  Assigned(assignSeq(IndArray, FamArray, PedArray, NumInd, IndSort, NumPed))
    /\ pc' = "calcKin2"
    /\ UNCHANGED <<qVals, qNumeric, qOrd, pedFile, NumInd, NumFou, famList, idFam, IndSort, FamArray,
                   NumFam, TwinArray, NumPed, MaxLbrk, links, kin2, phi2,
                   isInbred, ErrCnt, WrnCnt, ErrMsg>>

\* calcKin2(); a do-while that cannot end leaves the run inside calcKin2
CalcKin2 ==
    /\ pc = "calcKin2"
    /\ LET Written(r) ==
               /\ kin2' = r.kin2 /\ phi2' = r.phi2 /\ PedArray' = r.PedArray
               /\ isInbred' = r.isInbred
               /\ pc' = IF r.hang THEN "calcKin2" ELSE "done"
       IN  Written(calcKin2(IndArray, FamArray, PedArray, IndSeq))
    /\ UNCHANGED <<qVals, qNumeric, qOrd, pedFile, IndArray, NumInd, NumFou, famList, idFam, IndSort,
                   FamArray, NumFam, TwinArray, NumPed, MaxLbrk, links, IndSeq,
                   ErrCnt, WrnCnt, ErrMsg>>

\* writeInfo(), called last by main(): the counts that go to pedigree.info
WriteInfo ==
    /\ pc = "done"
    /\ LET Written(r) == PedArray' = r.PedArray /\ NumFam' = r.NumFam
       IN  Written(writeInfo(PedArray, NumFam))
    /\ pc' = "written"
    /\ UNCHANGED <<qVals, qNumeric, qOrd, pedFile, IndArray, NumInd, NumFou, famList, idFam, IndSort,
                   FamArray, TwinArray, NumPed, MaxLbrk, links, IndSeq, kin2, phi2,
                   isInbred, ErrCnt, WrnCnt, ErrMsg>>

Next ==
    \/ GetPedData
    \/ SortInds
    \/ MakeFams
    \/ CheckTwins
    \/ MakePeds
    \/ CheckLooping
    \/ AssignSeq
    \/ CalcKin2
    \/ WriteInfo

Spec == Init /\ [][Next]_vars

----------------------------------------------------------------------------
(* qSort() on its own: one call on a list of keys, in either mode. *)

\* keys of two characters: " 1", "1 ", "01", "10", " 2", "2 "
Keys ==
    {<<SP, Ch1>>, <<Ch1, SP>>, <<Ch0, Ch1>>, <<Ch1, Ch0>>, <<SP, Ch2>>, <<Ch2, SP>>}

\* every list of at most MaxKeys keys
KeyLists == UNION {[0..(n - 1) -> Keys] : n \in 0..MaxKeys}

SortInit ==
    /\ qVals \in KeyLists /\ qNumeric \in BOOLEAN /\ qOrd = NoArr
    /\ pc = "qSort" /\ pedFile = <<>>
    /\ IndArray = NoArr /\ NumInd = 0 /\ NumFou = 0
    /\ famList = NoArr /\ idFam = NoArr /\ IndSort = NoArr
    /\ FamArray = NoArr /\ NumFam = 0 /\ TwinArray = NoArr
    /\ PedArray = NoArr /\ NumPed = 0 /\ MaxLbrk = 0 /\ links = NoArr
    /\ IndSeq = NoArr /\ kin2 = NoArr /\ phi2 = <<>> /\ isInbred = FALSE
    /\ ErrCnt = 0 /\ WrnCnt = 0 /\ ErrMsg = NoMsg

QSort ==
    /\ pc = "qSort"
    /\ qOrd' = qSort(qVals, Size(qVals), qNumeric)
    /\ pc' = "sorted"
    /\ UNCHANGED <<qVals, qNumeric, pedFile, IndArray, NumInd, NumFou, famList,
                   idFam, IndSort, FamArray, NumFam, TwinArray, PedArray, NumPed,
                   MaxLbrk, links, IndSeq, kin2, phi2, isInbred, ErrCnt, WrnCnt,
                   ErrMsg>>

SortNext == QSort

SortSpec == SortInit /\ [][SortNext]_vars

----------------------------------------------------------------------------
(* The properties, stated over the state that main() has built. *)

\* makePeds() has returned
AfterMakePeds == pc \in {"checkLooping", "assignSeq", "calcKin2", "done"}

\* p is the father or the mother of c
IsParent(p, c) ==
    /\ IndArray[c].fam # -1
    /\ p \in {FamArray[IndArray[c].fam].fa, FamArray[IndArray[c].fam].mo}

\* everyone reached from S over parent-child links, in either direction
RECURSIVE Chain(_)
Chain(S) ==
    LET Grow(T) == IF T = S THEN S ELSE Chain(T)
    IN  Grow(S \cup {x \in DOMAIN IndArray :
                        \E y \in S : IsParent(x, y) \/ IsParent(y, x)})

\* C1: after makePeds two individuals carry the same pedigree id exactly when
\* a chain of parent-child links connects them, and every family carries the
\* pedigree id of its father, its mother and all its children
C1_PedsAreComponents ==
    AfterMakePeds =>
        /\ \A i \in DOMAIN IndArray :
               {j \in DOMAIN IndArray : IndArray[j].ped = IndArray[i].ped}
                   = Chain({i})
        /\ \A f \in DOMAIN FamArray :
               /\ IndArray[FamArray[f].fa].ped = FamArray[f].ped
               /\ IndArray[FamArray[f].mo].ped = FamArray[f].ped
               /\ \A c \in DOMAIN IndArray :
                      IndArray[c].fam = f => IndArray[c].ped = FamArray[f].ped

\* two pedigrees, one of which joins two individuals only through a third
C1_Witness ==
    /\ pc = "done"
    /\ \E i, j, k \in DOMAIN IndArray :
           /\ i # j /\ IndArray[i].ped = IndArray[j].ped
           /\ ~IsParent(i, j) /\ ~IsParent(j, i)
           /\ IndArray[k].ped # IndArray[i].ped

\* C2: once the generations are assigned every founder has generation 0 and
\* everyone else one more than the higher of the parents' generations
C2_Generations ==
    AfterMakePeds =>
        \A i \in DOMAIN IndArray :
            IF IndArray[i].fam = -1 THEN IndArray[i].gen = 0
            ELSE IndArray[i].gen =
                     Max(IndArray[FamArray[IndArray[i].fam].fa].gen,
                         IndArray[FamArray[IndArray[i].fam].mo].gen) + 1

\* somebody whose parents are of different generations
C2_Witness ==
    /\ pc = "done"
    /\ \E i \in DOMAIN IndArray :
           /\ IndArray[i].fam # -1
           /\ IndArray[FamArray[IndArray[i].fam].fa].gen
                  # IndArray[FamArray[IndArray[i].fam].mo].gen
           /\ IndArray[i].gen >= 2

\* the individual at position i of the final order, and the positions of
\* its father and mother
Person(i) == IndArray[IndSeq[i]]
FaSeq(i) == IndArray[FamArray[Person(i).fam].fa].seq
MoSeq(i) == IndArray[FamArray[Person(i).fam].mo].seq
\* Phi2(i, j) as stored
Phi(i, j) == K(kin2, i, j)
\* i and j carry the same twin id
CoTwins(i, j) == Person(i).itwinid # 0 /\ Person(i).itwinid = Person(j).itwinid

\* the positions in S and all their descendants
RECURSIVE Desc(_)
Desc(S) ==
    LET Grow(T) == IF T = S THEN S ELSE Desc(T)
    IN  Grow(S \cup {x \in DOMAIN IndSeq :
                        Person(x).fam # -1 /\ (FaSeq(x) \in S \/ MoSeq(x) \in S)})

\* i is the child of two full siblings whose parents are unrelated founders
ChildOfFullSibs(i) ==
    /\ Person(i).fam # -1
    /\ Person(FaSeq(i)).fam # -1
    /\ Person(FaSeq(i)).fam = Person(MoSeq(i)).fam
    /\ Person(FaSeq(FaSeq(i))).fam = -1
    /\ Person(MoSeq(FaSeq(i))).fam = -1
    /\ Phi(FaSeq(FaSeq(i)), MoSeq(FaSeq(i))) = 0

\* C3: the self-coefficient is 1 for a founder and 1 + 1/2 Phi2(father, mother)
\* for everyone else; the child of two full siblings whose parents are
\* unrelated founders has 1.25
C3_SelfCoefficient ==
    pc = "done" =>
        \A i \in DOMAIN IndSeq :
            /\ IF Person(i).fam = -1 THEN kin2[i][i] = KinUnit
               ELSE 2 * (kin2[i][i] - KinUnit) = Phi(FaSeq(i), MoSeq(i))
            /\ ChildOfFullSibs(i) => 4 * kin2[i][i] = 5 * KinUnit

\* a child of two full siblings has been given its coefficient
C3_Witness ==
    /\ pc = "done"
    /\ \E i \in DOMAIN IndSeq : ChildOfFullSibs(i) /\ kin2[i][i] > KinUnit

\* the coefficients of scenario A: a founder couple with one child
TrioValues ==
    pedFile = Ped(Trio) =>
        /\ kin2[1][0] = 0
        /\ 2 * kin2[2][0] = KinUnit /\ 2 * kin2[2][1] = KinUnit
        /\ kin2[2][2] = KinUnit

\* C4 as stated: for distinct i and j with j no descendant of i, Phi2(i, j) is
\* half the sum of Phi2(father(i), j) and Phi2(mother(i), j); two founders
\* have Phi2 0; a founder couple with one child has 0, 0.5 and 1.0
C4_Original ==
    pc = "done" =>
        /\ \A i, j \in DOMAIN IndSeq :
               i # j =>
                   /\ (Person(i).fam # -1 /\ j \notin Desc({i}))
                          => 2 * Phi(i, j) = Phi(FaSeq(i), j) + Phi(MoSeq(i), j)
                   /\ (Person(i).fam = -1 /\ Person(j).fam = -1) => Phi(i, j) = 0
        /\ TrioValues

\* C4, amended: the same for the pairs in which j is neither a co-twin of i
\* nor a descendant of i or of a co-twin of i, and for two founders that are
\* not co-twins
C4_Recurrence ==
    pc = "done" =>
        /\ \A i, j \in DOMAIN IndSeq :
               (i # j /\ ~CoTwins(i, j)) =>
                   /\ (/\ Person(i).fam # -1
                       /\ j \notin Desc({t \in DOMAIN IndSeq : t = i \/ CoTwins(t, i)}))
                          => 2 * Phi(i, j) = Phi(FaSeq(i), j) + Phi(MoSeq(i), j)
                   /\ (Person(i).fam = -1 /\ Person(j).fam = -1) => Phi(i, j) = 0
        /\ TrioValues

\* a pair with a non-zero coefficient in which j was resolved after i: the
\* stored value was written by j's row, not by i's
C4_Witness ==
    /\ pc = "done"
    /\ \E i, j \in DOMAIN IndSeq :
           /\ i < j /\ ~CoTwins(i, j)
           /\ Person(i).fam # -1 /\ Person(j).fam # -1
           /\ j \notin Desc({t \in DOMAIN IndSeq : t = i \/ CoTwins(t, i)})
           /\ Phi(i, j) # 0

\* C5: a pedigree is flagged inbred exactly when one of its members has a
\* self-coefficient above 1, which is exactly when the parents of one of its
\* members have a non-zero coefficient
C5_InbredFlag ==
    pc = "done" =>
        \A p \in DOMAIN PedArray :
            /\ PedArray[p].inbred =
                   (\E i \in DOMAIN IndSeq : Person(i).ped = p /\ kin2[i][i] > KinUnit)
            /\ PedArray[p].inbred =
                   (\E i \in DOMAIN IndSeq :
                        /\ Person(i).ped = p /\ Person(i).fam # -1
                        /\ Phi(FaSeq(i), MoSeq(i)) # 0)

\* an inbred pedigree next to one that is not
C5_Witness ==
    /\ pc = "done"
    /\ \E p, q \in DOMAIN PedArray :
           PedArray[p].inbred = TRUE /\ PedArray[q].inbred = FALSE

\* the lines of file phi2 written for the pair i, j
PairLines(i, j) ==
    {k \in 1..Len(phi2) : {phi2[k].i, phi2[k].j} = {i + 1, j + 1}}

\* C6 as stated: two individuals with one twin id have the same coefficients
\* with everyone else, and the Phi2 and the delta7 reported between them (a
\* line is written for them when they are of one pedigree) are both 1.0
C6_Original ==
    pc = "done" =>
        \A i, j \in DOMAIN IndSeq :
            (i # j /\ CoTwins(i, j)) =>
                /\ \A k \in DOMAIN IndSeq \ {i, j} : Phi(i, k) = Phi(j, k)
                /\ Person(i).ped = Person(j).ped => PairLines(i, j) # {}
                /\ \A k \in PairLines(i, j) :
                       phi2[k].phi2 = KinUnit /\ phi2[k].delta7 = KinUnit

\* C6, amended: the same coefficients with everyone else; the delta7 reported
\* between co-twins is 1.0 and the Phi2 reported between them is their common
\* self-coefficient
C6_Twins ==
    pc = "done" =>
        \A i, j \in DOMAIN IndSeq :
            (i # j /\ CoTwins(i, j)) =>
                /\ \A k \in DOMAIN IndSeq \ {i, j} : Phi(i, k) = Phi(j, k)
                /\ kin2[i][i] = kin2[j][j]
                /\ Person(i).ped = Person(j).ped => PairLines(i, j) # {}
                /\ \A k \in PairLines(i, j) :
                       phi2[k].phi2 = kin2[i][i] /\ phi2[k].delta7 = KinUnit

\* co-twins whose parents are related
C6_Witness ==
    /\ pc = "done"
    /\ \E i, j \in DOMAIN IndSeq :
           /\ i # j /\ CoTwins(i, j) /\ Person(i).fam # -1
           /\ Phi(FaSeq(i), MoSeq(i)) # 0

\* checkLooping() has returned
AfterCheckLooping == pc \in {"assignSeq", "calcKin2", "done"}

\* the members and the families of pedigree p
PedInds(p) == {x \in DOMAIN IndArray : IndArray[x].ped = p}
PedFams(p) == {f \in DOMAIN FamArray : FamArray[f].ped = p}

\* the arcs of pedigree p: children + 2 for each of its families
RECURSIVE Arcs(_)
Arcs(F) ==
    IF F = {} THEN 0
    ELSE LET f == CHOOSE x \in F : TRUE
         IN  Cardinality({c \in DOMAIN IndArray : IndArray[c].fam = f}) + 2
             + Arcs(F \ {f})

\* the nodes of pedigree p: individuals and families
Nodes(p) == Cardinality(PedInds(p)) + Cardinality(PedFams(p))

\* C7: every loop-breaker count is >= 0, and a pedigree with fewer arcs than
\* nodes has 0 breakers and hasloops false
C7_Breakers ==
    AfterCheckLooping =>
        \A p \in DOMAIN PedArray :
            /\ PedArray[p].nlbrk >= 0
            /\ Arcs(PedFams(p)) < Nodes(p)
                   => PedArray[p].nlbrk = 0 /\ PedArray[p].hasloops = FALSE

\* a pedigree without loops next to one with loops
C7_Witness ==
    /\ AfterCheckLooping
    /\ \E p, q \in DOMAIN PedArray :
           /\ Arcs(PedFams(p)) < Nodes(p) /\ PedArray[p].nlbrk = 0
           /\ Arcs(PedFams(q)) >= Nodes(q) /\ PedArray[q].nlbrk >= 1

\* the individuals named by the surviving links of family f of pedigree p
LinkedInds(p, f) ==
    {links[p].linkList[f][k].ind : k \in 1..Len(links[p].linkList[f])}

\* the sum of the surviving link counts over the families in F
RECURSIVE RemainingArcs(_, _)
RemainingArcs(p, F) ==
    IF F = {} THEN 0
    ELSE LET f == CHOOSE x \in F : TRUE
         IN  Cardinality(LinkedInds(p, f)) + RemainingArcs(p, F \ {f})

\* the families that still have links plus the individuals in a surviving link
RemainingNodes(p) ==
    Cardinality({f \in DOMAIN links[p].linkList : links[p].linkList[f] # <<>>}) +
    Cardinality(UNION {LinkedInds(p, f) : f \in DOMAIN links[p].linkList})

\* C8: for a pedigree with arcs >= nodes the loop-breaker count is remaining
\* arcs - remaining nodes + 1 on the pruned link graph
C8_BreakerCount ==
    AfterCheckLooping =>
        \A p \in DOMAIN PedArray :
            Arcs(PedFams(p)) >= Nodes(p) =>
                PedArray[p].nlbrk =
                    RemainingArcs(p, DOMAIN links[p].linkList) - RemainingNodes(p) + 1

\* a pruned graph that needs two breakers
C8_Witness ==
    /\ AfterCheckLooping
    /\ \E p \in DOMAIN PedArray :
           /\ Arcs(PedFams(p)) >= Nodes(p)
           /\ RemainingNodes(p) > 0
           /\ PedArray[p].nlbrk = 2

\* the sort ranks of the individuals that appear in a surviving link of p and
\* are children of a family that still carries links
Candidates(p) ==
    {j \in DOMAIN IndSort :
        /\ \E f \in DOMAIN links[p].linkList : j \in LinkedInds(p, f)
        /\ IndArray[IndSort[j]].fam # -1
        /\ links[p].linkList[FamArray[IndArray[IndSort[j]].fam].seq] # <<>>}

\* C9: a pedigree that needs exactly one loop-breaker has as lbrkind the first
\* individual, in identity-sorted order, that appears in a surviving link and
\* is a child of a family still carrying links: a defined individual of that
\* pedigree
C9_Candidate ==
    AfterCheckLooping =>
        \A p \in DOMAIN PedArray :
            PedArray[p].nlbrk = 1 =>
                /\ PedArray[p].lbrkind \in DOMAIN IndArray
                /\ IndArray[PedArray[p].lbrkind].ped = p
                /\ \E j \in Candidates(p) :
                       /\ \A k \in Candidates(p) : j <= k
                       /\ PedArray[p].lbrkind = IndSort[j]

\* a record with exactly one known parent
OneParent(rec) == unknown(rec.fa) # unknown(rec.mo)

\* C10: past ingestion every individual has both parents or neither: a record
\* with exactly one known parent is counted as an error and ends ingestion
\* fatally
C10_ParentPairs ==
    /\ (\E r \in DOMAIN pedFile : OneParent(pedFile[r]))
           => \/ pc = "getPedData"
              \/ pc = "fatal" /\ ErrCnt > 0 /\ ErrMsg = DataErrors /\ IndSort = NoArr
    /\ pc \notin {"getPedData", "fatal"}
           => \A x \in DOMAIN idFam :
                  \/ idFam[x] = -1
                  \/ /\ ~unknown(SubSeq(famList[idFam[x]], 1, IdLen))
                     /\ ~unknown(SubSeq(famList[idFam[x]], IdLen + 1, 2 * IdLen))

\* ingestion has ended fatally on a file whose only defect is a record with
\* exactly one known parent
C10_Witness ==
    /\ pc = "fatal" /\ ErrCnt = 1
    /\ \E r \in DOMAIN pedFile : OneParent(pedFile[r])

----------------------------------------------------------------------------
(* Error handling: the checkpoints that end the phases. *)

\* the phases main() starts after getPedData()
LaterPhases ==
    {"sortInds", "makeFams", "sortInds2", "makeFams2", "checkTwins", "makePeds",
     "trace", "checkLooping", "assignSeq", "calcKin2", "done"}

\* the run was stopped by the checkpoint of getPedData()
FatalInGetPedData == pc = "fatal" /\ ErrMsg = DataErrors /\ IndSort = NoArr

\* the validation errors of all the records of the file
FileErrors ==
    Cardinality({ke \in (1..Len(pedFile)) \X (1..4) : ke[2] <= RecErrors(pedFile[ke[1]])})

FileIds == {pedFile[k].id : k \in 1..Len(pedFile)}

\* two records of the file have one id
SharedId == \E j, k \in 1..Len(pedFile) : j # k /\ pedFile[j].id = pedFile[k].id

\* the run was stopped by the checkpoint of the first sortInds()
FatalInSortInds ==
    /\ pc = "fatal" /\ ErrMsg = DataErrors
    /\ IndSort # NoArr /\ FamArray = NoArr /\ NumFam = 0

\* C12: when the individuals read from the file share an id, sortInds() logs
\* one error for each adjacent equal pair of the sorted order, that is one
\* for each individual beyond the first of its id, and its checkpoint stops
\* the run before makeFams() has built a family.
C12_DuplicateIds ==
    pc \notin {"getPedData", "sortInds"} /\ ~FatalInGetPedData /\ SharedId =>
        /\ FatalInSortInds
        /\ ErrCnt = Len(pedFile) - Cardinality(FileIds)
        /\ ErrCnt = Cardinality({i \in 1..(NumInd - 1) :
                         IndArray[IndSort[i]].id = IndArray[IndSort[i - 1]].id})

\* three individuals with one id: two adjacent equal pairs, two errors
C12_Witness ==
    /\ FatalInSortInds /\ SharedId /\ Cardinality(FileIds) = 1
    /\ NumInd = 3 /\ ErrCnt = 2

----------------------------------------------------------------------------
(* The family builder. *)

\* the father and mother ids that the records name
FatherIds == {pedFile[k].fa : k \in {j \in 1..Len(pedFile) : ~unknown(pedFile[j].fa)}}
MotherIds == {pedFile[k].mo : k \in {j \in 1..Len(pedFile) : ~unknown(pedFile[j].mo)}}

\* the parent ids that have no record of their own
MissingIds == (FatherIds \cup MotherIds) \ FileIds

\* the individuals that carry the id
IndsOf(id) == {i \in 0..(NumInd - 1) : IndArray[i].id = id}

\* the run was stopped by the checkpoint of the second sortInds()
FatalInSortInds2 ==
    /\ pc = "fatal" /\ ErrMsg = DataErrors /\ FamArray # NoArr
    /\ \E id \in MissingIds : Cardinality(IndsOf(id)) > 1

\* makeFams() has returned for the last time
FamsMade == pc \in {"checkTwins", "makePeds", "trace", "checkLooping",
                    "assignSeq", "calcKin2", "done"}

\* C13: a parent id without a record is a recoverable anomaly: makeFams()
\* adds one founder for it (generation 0, sex by the role), logs a warning
\* and no error, and the run goes on to a completed family structure,
\* whatever the number of families that name the id.
C13_MissingParents ==
    /\ ~FatalInSortInds2
    /\ FamsMade /\ MissingIds # {} =>
          /\ ErrCnt = 0 /\ WrnCnt >= Cardinality(MissingIds)
          /\ \A id \in MissingIds :
                 /\ Cardinality(IndsOf(id)) = 1
                 /\ \A i \in IndsOf(id) :
                        /\ IndArray[i].gen = 0 /\ IndArray[i].fam = -1
                        /\ id \in FatherIds => IndArray[i].sex = 1
                        /\ id \in MotherIds => IndArray[i].sex = 2
                 /\ \E f \in 0..(NumFam - 1) :
                        \/ IndArray[FamArray[f].fa].id = id
                        \/ IndArray[FamArray[f].mo].id = id

\* C14: once makeFams() has corrected the sex codes, the father of every
\* family is male and the mother of every family is female.
C14_ParentSex ==
    FamsMade =>
        \A f \in 0..(NumFam - 1) :
            /\ IndArray[FamArray[f].fa].sex = 1
            /\ IndArray[FamArray[f].mo].sex = 2

----------------------------------------------------------------------------
(* Own ancestors. *)

\* the records that name their own id as the father
SelfFathers ==
    {k \in 1..Len(pedFile) : ~unknown(pedFile[k].fa) /\ pedFile[k].fa = pedFile[k].id}

\* the run was stopped by the precheck of makePeds(), which named id
OwnAncestor(id) == pc = "fatal" /\ ErrMsg = [msg |-> "own ancestor", id |-> id]

\* C15 as stated: a run whose file has a record that names itself as its
\* father is stopped by the precheck of makePeds() with the own-ancestor
\* message naming that individual.
C15_Original ==
    pc = "fatal" /\ SelfFathers # {} =>
        \E k \in SelfFathers : OwnAncestor(pedFile[k].id)

\* C15: a record that names itself as its father is an error of getPedData()
\* ("individual has same ID as father"); the checkpoint of getPedData() stops
\* the run with the data-errors message, makePeds() is never reached and no
\* own-ancestor message is given.
C15_SelfFather ==
    pc # "getPedData" /\ SelfFathers # {} =>
        /\ FatalInGetPedData /\ ErrCnt >= Cardinality(SelfFathers)
        /\ PedArray = NoArr /\ FamArray = NoArr
        /\ \A k \in SelfFathers : ~OwnAncestor(pedFile[k].id)

\* a file whose only error is a record naming itself as its father
C15_Witness ==
    /\ FatalInGetPedData /\ ErrCnt = 1 /\ Cardinality(SelfFathers) = 1
    /\ \A k \in SelfFathers : ~unknown(pedFile[k].mo)

\* makePeds() has been called and has ended or stopped the run
MakePedsRan ==
    \/ pc \in {"trace", "checkLooping", "assignSeq", "calcKin2", "done"}
    \/ pc = "fatal" /\ ErrMsg # DataErrors

\* the individuals in S and all their ancestors
RECURSIVE Ancestors(_)
Ancestors(S) ==
    LET Grow(T) == IF T = S THEN S ELSE Ancestors(T)
    IN  Grow(S \cup {x \in 0..(NumInd - 1) : \E y \in S : IsParent(x, y)})

\* i is its own ancestor
OnCycle(i) == i \in Ancestors({x \in 0..(NumInd - 1) : IsParent(x, i)})

\* the individuals the peeling can never place: those on a cycle of parent
\* links and their descendants
Unplaceable == {i \in 0..(NumInd - 1) : \E a \in Ancestors({i}) : OnCycle(a)}

\* C16: when the parent links hold a cycle, the precheck of makePeds() comes
\* to a step where no individual is ready and stops the run with the
\* own-ancestor message, naming an individual not yet placed; no generation
\* number has been assigned by then.
C16_Cycles ==
    MakePedsRan /\ Unplaceable # {} =>
        /\ \E i \in Unplaceable : OwnAncestor(IndArray[i].id)
        /\ PedArray = NoArr
        /\ \A i \in 0..(NumInd - 1) : IndArray[i].fam # -1 => IndArray[i].gen = -1

\* a cycle of two steps with two founders placed before the precheck stops
\* and a descendant of the cycle that is not on it
C16_Witness ==
    /\ MakePedsRan /\ NumInd = 5
    /\ \E i \in Unplaceable : OwnAncestor(IndArray[i].id)
    /\ \E i \in Unplaceable : ~OnCycle(i)
    /\ Cardinality({i \in 0..(NumInd - 1) : OnCycle(i)}) = 2

----------------------------------------------------------------------------
(* The final order. *)

AfterAssignSeq == pc \in {"calcKin2", "done"}

\* the rank of individual x in the identity index
RankOf(x) == CHOOSE r \in DOMAIN IndSort : IndSort[r] = x

\* the composite key of individual x
KeyOf(x) ==
    <<IndArray[x].ped, IndArray[x].gen,
      IF IndArray[x].fam # -1 THEN FamArray[IndArray[x].fam].seq ELSE 0,
      RankOf(x)>>

\* a comes before b, component by component
KeyBefore(a, b) ==
    \E c \in 1..4 : a[c] < b[c] /\ \A d \in 1..(c - 1) : a[d] = b[d]

\* C17: assignSeq() numbers the individuals 0..NumInd-1, each number used
\* once, in the order of the key (pedigree, generation, family seq within
\* the pedigree, rank in the identity index); a pedigree's members hold
\* consecutive numbers and seq1 is the first of them.
C17_Sequence ==
    AfterAssignSeq =>
        /\ DOMAIN IndSeq = 0..(NumInd - 1)
        /\ {IndSeq[i] : i \in DOMAIN IndSeq} = 0..(NumInd - 1)
        /\ \A i \in DOMAIN IndSeq : IndArray[IndSeq[i]].seq = i
        /\ \A i, j \in DOMAIN IndSeq :
               i < j => KeyBefore(KeyOf(IndSeq[i]), KeyOf(IndSeq[j]))
        /\ \A p \in 0..(NumPed - 1) :
               LET block == {i \in DOMAIN IndSeq : Person(i).ped = p}
               IN  /\ block = PedArray[p].seq1..(PedArray[p].seq1 + PedArray[p].nind - 1)
                   /\ block # {}

\* two pedigrees and three generations, numbered in an order that is neither
\* the order of the file nor the order of the ids
C17_Witness ==
    /\ pc = "done" /\ NumPed = 2 /\ NumInd = 5
    /\ \E i \in DOMAIN IndSeq : Person(i).gen = 2
    /\ \E i \in DOMAIN IndSeq : IndSeq[i] # i
    /\ \E i \in DOMAIN IndSeq : IndSeq[i] # IndSort[i]

----------------------------------------------------------------------------
(* Unrelated individuals. *)

\* i has no parents and no children
Unrelated(i) ==
    /\ IndArray[i].fam = -1
    /\ \A c \in 0..(NumInd - 1) : ~IsParent(i, c)

\* C18: makePeds() leaves no individual with pedigree id -1; an individual
\* without parents and children is not traced and gets a pedigree of its
\* own, of one individual, one founder and no family, whose id is above the
\* ids of all the traced pedigrees.
C18_Singletons ==
    AfterMakePeds =>
        /\ \A i \in 0..(NumInd - 1) : IndArray[i].ped \in 0..(NumPed - 1)
        /\ \A i \in 0..(NumInd - 1) :
               Unrelated(i) =>
                   /\ PedArray[IndArray[i].ped].nind = 1
                   /\ PedArray[IndArray[i].ped].nfou = 1
                   /\ PedArray[IndArray[i].ped].nfam = 0
                   /\ \A j \in 0..(NumInd - 1) :
                          j # i => IndArray[j].ped # IndArray[i].ped
                   /\ \A j \in 0..(NumInd - 1) :
                          ~Unrelated(j) => IndArray[j].ped < IndArray[i].ped
                   /\ \A f \in 0..(NumFam - 1) : FamArray[f].ped # IndArray[i].ped

\* two unrelated individuals beside a traced pedigree, the first unrelated
\* one coming before the traced ones in IndArray
C18_Witness ==
    /\ AfterMakePeds /\ NumPed >= 3 /\ NumFam >= 1
    /\ Unrelated(0)
    /\ Cardinality({i \in 0..(NumInd - 1) : Unrelated(i)}) >= 2

----------------------------------------------------------------------------
(* The order of checkLooping() and assignSeq(), calcKin2() in main(). *)

\* what a run reports: per pedigree hasloops, nlbrk, lbrkind and the inbred
\* flag, then the kinship matrix and the inbred flag of the run
Report(peds, maxlbrk, ck) ==
    [hasloops |-> [p \in DOMAIN peds |-> peds[p].hasloops],
     nlbrk |-> [p \in DOMAIN peds |-> peds[p].nlbrk],
     lbrkind |-> [p \in DOMAIN peds |-> peds[p].lbrkind],
     inbred |-> [p \in DOMAIN peds |-> peds[p].inbred],
     MaxLbrk |-> maxlbrk, hang |-> ck.hang, kin2 |-> ck.kin2, phi2 |-> ck.phi2,
     isInbred |-> ck.isInbred]

\* main() as written: checkLooping(), assignSeq(), calcKin2()
LoopsFirst(junk) ==
    LET Kin(cl, ck) == Report(ck.PedArray, cl.MaxLbrk, ck)
        Numbered(cl, as) ==
            Kin(cl, calcKin2(as.IndArray, FamArray, as.PedArray, as.IndSeq))
        Loops(cl) == Numbered(cl, assignSeq(IndArray, FamArray, cl.PedArray, NumInd,
                                             IndSort, NumPed))
    IN  Loops(checkLooping(IndArray, FamArray, PedArray, IndSort, junk))

\* the other order: assignSeq(), calcKin2(), checkLooping()
KinFirst(junk) ==
    LET Loops(ck, cl) == Report(cl.PedArray, cl.MaxLbrk, ck)
        Kin(as, ck) == Loops(ck, checkLooping(as.IndArray, FamArray, ck.PedArray,
                                              IndSort, junk))
        Numbered(as) ==
            Kin(as, calcKin2(as.IndArray, FamArray, as.PedArray, as.IndSeq))
    IN  Numbered(assignSeq(IndArray, FamArray, PedArray, NumInd, IndSort, NumPed))

\* the two reports agree but for the fields in skip
SameBut(a, b, skip) == \A fld \in (DOMAIN a) \ skip : a[fld] = b[fld]

\* C19 as stated: from the structure that makePeds() leaves, the two orders
\* give the same hasloops, loop-breaker count and candidate individual for
\* every pedigree and the same kinship matrix and inbred flags.
C19_Original ==
    pc = "checkLooping" =>
        \A junk \in Junk : SameBut(LoopsFirst(junk), KinFirst(junk), {})

\* C19: from the structure that makePeds() leaves, the two orders give the
\* same hasloops and loop-breaker count for every pedigree and the same
\* kinship matrix and inbred flags; the candidate individual is left out,
\* for checkLooping() reads in Ind.seq the rank that assignSeq() overwrites.
C19_Orders ==
    pc = "checkLooping" =>
        \A junk \in Junk : SameBut(LoopsFirst(junk), KinFirst(junk), {"lbrkind"})

\* a looped pedigree for which each order names an individual, and not the
\* same one
C19_Witness ==
    /\ pc = "checkLooping"
    /\ \E junk \in Junk :
           LET Differ(a, b) ==
                   /\ SameBut(a, b, {"lbrkind"}) /\ a.isInbred
                   /\ \E p \in DOMAIN a.lbrkind :
                          /\ a.hasloops[p] = TRUE /\ a.nlbrk[p] = 1
                          /\ a.lbrkind[p] \in 0..(NumInd - 1)
                          /\ b.lbrkind[p] \in 0..(NumInd - 1)
                          /\ a.lbrkind[p] # b.lbrkind[p]
           IN  Differ(LoopsFirst(junk), KinFirst(junk))

----------------------------------------------------------------------------
(* qSort. *)

\* key a comes before key b in the mode of the call
KeyLess(a, b) == IF qNumeric THEN atoi(a) < atoi(b) ELSE strcmp(a, b) < 0

\* qOrd holds each of 0..nvals-1 once
IsPermutation ==
    /\ DOMAIN qOrd = DOMAIN qVals
    /\ {qOrd[i] : i \in DOMAIN qOrd} = DOMAIN qVals

\* the keys do not decrease along qOrd
NonDecreasing ==
    \A i, j \in DOMAIN qOrd : i < j => ~KeyLess(qVals[qOrd[j]], qVals[qOrd[i]])

\* keys that compare equal come in the order they had in qVals
KeepsOrder ==
    \A i, j \in DOMAIN qOrd :
        i < j /\ ~KeyLess(qVals[qOrd[i]], qVals[qOrd[j]]) => qOrd[i] < qOrd[j]

\* C20 as stated: qSort() is a stable sort: ord is a permutation of
\* 0..nvals-1, the keys do not decrease along it in the mode of the call,
\* and keys that compare equal keep the order they had.
C20_Original ==
    pc = "sorted" => IsPermutation /\ NonDecreasing /\ KeepsOrder

\* C20: qSort() sorts, without being stable: ord is a permutation of
\* 0..nvals-1 and the keys do not decrease along it in the mode of the
\* call (bytewise, or by the value of the leading integer); keys that
\* compare equal may come out in any order.
C20_Sorted ==
    pc = "sorted" => IsPermutation /\ NonDecreasing

\* a numeric call on four keys that moved keys and put two keys of equal
\* value in the reverse of their order
C20_Witness ==
    /\ pc = "sorted" /\ qNumeric /\ Size(qVals) = 4
    /\ IsPermutation /\ NonDecreasing /\ ~KeepsOrder
    /\ \E i, j \in DOMAIN qVals : atoi(qVals[i]) > atoi(qVals[j]) /\ i < j

----------------------------------------------------------------------------
(* The families and their children. *)

\* the individuals read from records that name parents
WithParents == {i \in 0..(Len(pedFile) - 1) : ~unknown(pedFile[i + 1].fa)}

\* the (father id, mother id) of family f
FamKey(f) == <<IndArray[FamArray[f].fa].id, IndArray[FamArray[f].mo].id>>

\* the individuals whose record names the parents of family f
KidsOf(f) == {i \in WithParents : <<pedFile[i + 1].fa, pedFile[i + 1].mo>> = FamKey(f)}

\* the chain of siblings that starts at k
RECURSIVE SibChain(_)
SibChain(k) == IF k = -1 THEN <<>> ELSE <<k>> \o SibChain(IndArray[k].sib)

\* C21: once makeFams() has returned 0, every individual whose record names
\* parents belongs to the one family with that father id and mother id, and
\* no other individual belongs to a family; nkid counts the children of the
\* family, and kid1 followed by the sib links lists them in the order of the
\* file.
C21_Families ==
    FamsMade =>
        /\ \A f, g \in 0..(NumFam - 1) : f # g => FamKey(f) # FamKey(g)
        /\ \A i \in 0..(NumInd - 1) :
               IF i \in WithParents
               THEN /\ IndArray[i].fam \in 0..(NumFam - 1)
                    /\ i \in KidsOf(IndArray[i].fam)
               ELSE IndArray[i].fam = -1
        /\ \A f \in 0..(NumFam - 1) :
               LET chain == SibChain(FamArray[f].kid1)
               IN  /\ FamArray[f].nkid = Cardinality(KidsOf(f))
                   /\ Len(chain) = FamArray[f].nkid
                   /\ {chain[k] : k \in 1..Len(chain)} = KidsOf(f)
                   /\ \A k \in 1..(Len(chain) - 1) : chain[k] < chain[k + 1]

\* two families, one of them with two children that come in the file in the
\* reverse of the order of their ids
C21_Witness ==
    /\ pc = "checkTwins" /\ NumFam >= 2
    /\ \E f \in 0..(NumFam - 1) :
           /\ FamArray[f].nkid = 2
           /\ IndArray[FamArray[f].kid1].sib # -1
           /\ strcmp(IndArray[FamArray[f].kid1].id,
                     IndArray[IndArray[FamArray[f].kid1].sib].id) > 0

\* C22: when the first makeFams() added a parent, sortInds() and makeFams()
\* are run once more and the second makeFams() adds nobody: afterwards the
\* father and the mother of every family are individuals that findInd()
\* finds in the rebuilt index.
C22_Rerun ==
    /\ MissingIds # {} /\ ~FatalInGetPedData /\ ~FatalInSortInds
    /\ pc \notin {"getPedData", "sortInds", "makeFams", "sortInds2", "makeFams2"}
    =>
    /\ ~FatalInSortInds2
    /\ NumInd = Len(pedFile) + Cardinality(MissingIds)
    /\ \A f \in 0..(NumFam - 1) :
           /\ FamArray[f].fa \in 0..(NumInd - 1)
           /\ FamArray[f].mo \in 0..(NumInd - 1)
           /\ findInd(IndArray, NumInd, IndSort, IndArray[FamArray[f].fa].id)
                  = FamArray[f].fa
           /\ findInd(IndArray, NumInd, IndSort, IndArray[FamArray[f].mo].id)
                  = FamArray[f].mo

\* C23: when the parent links hold no cycle, whatever the number of
\* individuals, one founder alone included, the precheck of makePeds() finds
\* a ready individual at every step and gives no own-ancestor message.
C23_NoCycle ==
    MakePedsRan /\ Unplaceable = {} =>
        ~(pc = "fatal" /\ ErrMsg.msg = "own ancestor")

----------------------------------------------------------------------------
(* The generation loop. *)

\* the generation loop as makePeds() is about to run it, when the precheck
\* lets it start
GensEnd(r) ==
    /\ r.ok
    /\ r.passes <= NumInd - NumFou
    /\ \A i \in 0..(NumInd - 1) : r.IndArray[i].gen >= 0

\* C24: the generation loop ends: a pass either gives a generation to one
\* more individual at least or stops the run; after a precheck that found no
\* own ancestor it ends with a generation of 0 or more for every individual,
\* after no more passes than there are individuals without one.
C24_Generations ==
    /\ pc = "makePeds" /\ precheck(IndArray, FamArray, IndSort).ok =>
           /\ NumFou = Cardinality({i \in 0..(NumInd - 1) : IndArray[i].gen >= 0})
           /\ GensEnd(assignGens(IndArray, FamArray, IndSort, NumFou))
    /\ MakePedsRan =>
           /\ ErrMsg.msg # "generation numbers"
           /\ ErrMsg.msg # "own ancestor" =>
                  \A i \in 0..(NumInd - 1) : IndArray[i].gen >= 0

\* three generations, with a grandchild that comes before its father in the
\* sorted order, so that one pass is not enough
C24_Witness ==
    /\ pc = "checkLooping"
    /\ \E i \in 0..(NumInd - 1) :
           /\ IndArray[i].gen = 2
           /\ IndArray[i].seq < IndArray[FamArray[IndArray[i].fam].fa].seq
           /\ IndArray[FamArray[IndArray[i].fam].fa].gen = 1

----------------------------------------------------------------------------
(* trace(). *)

\* the individuals that the traces gave a pedigree
Traced(ts) == {i \in DOMAIN ts.IndArray : ts.IndArray[i].ped # -1}

\* what the traces of makePeds() leave behind
TraceEnds(ts) ==
    /\ ts.ret /\ ts.pstack = -1
    /\ ts.maxdepth <= NumInd
    /\ \A i \in DOMAIN ts.pushes :
           ts.pushes[i] = IF i \in Traced(ts) THEN 1 ELSE 0
    /\ \A i \in DOMAIN ts.state :
           ts.state[i] = IF i \in Traced(ts) THEN 6 ELSE -1
    /\ ts.steps = 7 * Cardinality(Traced(ts))

\* C25: in trace() an individual is put on the stack once at most, so the
\* stack never holds more than NumInd entries; the state counter of an
\* individual goes up by one at each visit, from -1 to 6, so each relation is
\* followed once; every trace returns, with the stack empty.
C25_Trace ==
    pc = "makePeds" /\ precheck(IndArray, FamArray, IndSort).ok =>
        LET Ends(tr) == TraceEnds(tr.ts)
            Gens(gen) == gen.ok /\ Ends(tracePeds(gen.IndArray, FamArray, IndSort))
        IN  Gens(assignGens(IndArray, FamArray, IndSort, NumFou))

\* a trace with a stack three deep, in a file with an unrelated individual that
\* no trace reaches
C25_Witness ==
    /\ pc = "makePeds" /\ precheck(IndArray, FamArray, IndSort).ok
    /\ LET Ends(tr) ==
                /\ TraceEnds(tr.ts) /\ tr.nped >= 1
                /\ tr.ts.maxdepth >= 3 /\ Cardinality(Traced(tr.ts)) < NumInd
            Gens(gen) == gen.ok /\ Ends(tracePeds(gen.IndArray, FamArray, IndSort))
       IN  Gens(assignGens(IndArray, FamArray, IndSort, NumFou))

----------------------------------------------------------------------------
(* The leaf stripping of makeLinks(). *)

\* the pedigrees that checkLooping() made links for
Linked == {p \in DOMAIN PedArray : PedArray[p].hasloops = TRUE}

\* the number of link records of ls that name individual x
RECURSIVE RecordsOf(_, _, _)
RecordsOf(ls, x, F) ==
    IF F = {} THEN 0
    ELSE LET f == CHOOSE y \in F : TRUE
         IN  Cardinality({k \in 1..Len(ls.linkList[f]) : ls.linkList[f][k].ind = x})
             + RecordsOf(ls, x, F \ {f})

\* the number of link records of ls, over the families in F
RECURSIVE Records(_, _)
Records(ls, F) ==
    IF F = {} THEN 0
    ELSE LET f == CHOOSE y \in F : TRUE
         IN  Len(ls.linkList[f]) + Records(ls, F \ {f})

\* ls is consistent: nlink counts the individuals of a family's records, each
\* record has its mate in the family at its other end, and linkInd counts
\* the records that name an individual
Stripped(ls) ==
    /\ \A f \in DOMAIN ls.nlink :
           /\ ls.nlink[f] # 1
           /\ ls.nlink[f] =
                  Cardinality({ls.linkList[f][k].ind : k \in 1..Len(ls.linkList[f])})
           /\ \A k \in 1..Len(ls.linkList[f]) :
                  LET r == ls.linkList[f][k]
                  IN  /\ ls.nlink[r.fam] # 0
                      /\ Cardinality({n \in 1..Len(ls.linkList[r.fam]) :
                                         ls.linkList[r.fam][n] = [ind |-> r.ind, fam |-> f]})
                           = Cardinality({n \in 1..Len(ls.linkList[f]) :
                                             ls.linkList[f][n] = r})
    /\ \A x \in DOMAIN ls.linkInd :
           /\ ls.linkInd[x] = RecordsOf(ls, x, DOMAIN ls.linkList)
           /\ ls.linkInd[x] # 0 =>
                  \E f \in DOMAIN ls.linkList :
                      /\ ls.nlink[f] # 0
                      /\ \E k \in 1..Len(ls.linkList[f]) : ls.linkList[f][k].ind = x

\* C26: the leaf stripping of makeLinks() ends, and then no family has exactly
\* one link, every link record left has its mate in the family at its other
\* end, and linkInd counts the records left for each individual, so it is
\* non-zero only for an individual in a link of a family that has links.
C26_Stripping ==
    AfterCheckLooping => \A p \in Linked : Stripped(links[p])

\* a pedigree whose stripping took link records away and left others
C26_Witness ==
    /\ pc = "assignSeq"
    /\ \E p \in Linked :
           LET Fewer(raw) ==
                   /\ Records(links[p], DOMAIN links[p].linkList) > 0
                   /\ Records(raw, DOMAIN raw.linkList)
                          > Records(links[p], DOMAIN links[p].linkList)
           IN  Stripped(links[p]) /\ Fewer(rawLinks(IndArray, FamArray, PedArray, p))

----------------------------------------------------------------------------
(* The loop-breaker count against the circuit rank. *)

\* the circuit rank of pedigree p: arcs - nodes + 1
CircuitRank(p) == Arcs(PedFams(p)) - Nodes(p) + 1

\* C27: for every pedigree with arcs >= nodes the loop-breaker count found on
\* the pruned links is the circuit rank of the whole pedigree, so it is 1 at
\* least, and findBreaks() never leaves the count unset.
C27_CircuitRank ==
    AfterCheckLooping =>
        \A p \in Linked :
            /\ findBreaks(links[p]) # Uninit
            /\ PedArray[p].nlbrk = findBreaks(links[p])
            /\ PedArray[p].nlbrk = CircuitRank(p)
            /\ PedArray[p].nlbrk >= 1

----------------------------------------------------------------------------
(* The final sequence and the do-while of calcKin2(). *)

\* the run has its final sequence
Sequenced == pc \in {"calcKin2", "done"}

\* the individuals with a family
Children == {x \in DOMAIN IndArray : IndArray[x].fam # -1}

\* the father and the mother of x
Fa(x) == FamArray[IndArray[x].fam].fa
Mo(x) == FamArray[IndArray[x].fam].mo

\* the number of founders, count as the do-while starts
FounderCount == Cardinality({i \in DOMAIN IndSeq : IndArray[IndSeq[i]].fam = -1})

\* parents and their twin representatives come before x in the sequence
ParentsFirst(itw) ==
    \A x \in Children :
        /\ IndArray[Fa(x)].seq < IndArray[x].seq
        /\ IndArray[Mo(x)].seq < IndArray[x].seq
        /\ itw[IndArray[Fa(x)].seq] < IndArray[x].seq
        /\ itw[IndArray[Mo(x)].seq] < IndArray[x].seq

\* one pass r resolves every twin representative and ends the do-while
OnePass(itw, r) ==
    /\ \A i \in DOMAIN IndSeq : itw[i] = i => r.kin[i][i] # 0
    /\ r.count >= Cardinality({i \in DOMAIN IndSeq : itw[i] = i})
    /\ r.count = FounderCount +
           Cardinality({i \in DOMAIN IndSeq :
                           itw[i] = i /\ IndArray[IndSeq[i]].fam # -1})
    /\ pc = "done" => kin2 = kinTwins(r.kin, itw)

\* C28: in the final sequence the father and the mother of an individual,
\* and their twin representatives, have smaller sequence numbers than the
\* individual, so the first pass of the do-while of calcKin2() finds both
\* parents resolved for everyone it reaches, resolves them all and is the
\* only pass.
C28_SinglePass ==
    Sequenced =>
        LET Pass(itw) ==
                /\ ParentsFirst(itw)
                /\ OnePass(itw, KinPass(kinInit(IndArray, IndSeq), IndArray, FamArray,
                                        IndSeq, itw, [i |-> 0, count |-> FounderCount]))
        IN  Pass(itwinOf(IndArray, IndSeq))

\* a finished run with a grandchild and a parent that is the second of twins
C28_Witness ==
    /\ pc = "done"
    /\ LET Twin(itw) ==
               \E x \in Children :
                   /\ itw[IndArray[Fa(x)].seq] # IndArray[Fa(x)].seq
                   /\ IndArray[x].gen >= 2
       IN  Twin(itwinOf(IndArray, IndSeq))

----------------------------------------------------------------------------
(* The counts kept for each pedigree. *)

\* the sum of the field cnt over the pedigrees in P
RECURSIVE SumPeds(_, _)
SumPeds(cnt, P) ==
    IF P = {} THEN 0
    ELSE LET p == CHOOSE q \in P : TRUE
         IN  PedArray[p][cnt] + SumPeds(cnt, P \ {p})

\* C29: after makePeds() the counts of every pedigree are exact: nind is the
\* number of individuals with its id, nfou the number of those without a
\* family, nfam the number of families with its id, whose seq are
\* 0..nfam-1; the sums over the pedigrees are NumInd, NumFou and NumFam.
C29_Counts ==
    AfterMakePeds =>
        /\ DOMAIN PedArray = 0..(NumPed - 1)
        /\ \A p \in DOMAIN PedArray :
               /\ PedArray[p].nind = Cardinality(PedInds(p))
               /\ PedArray[p].nfou =
                      Cardinality({x \in PedInds(p) : IndArray[x].fam = -1})
               /\ PedArray[p].nfam = Cardinality(PedFams(p))
               /\ {FamArray[f].seq : f \in PedFams(p)} = 0..(PedArray[p].nfam - 1)
        /\ SumPeds("nind", DOMAIN PedArray) = NumInd
        /\ SumPeds("nfou", DOMAIN PedArray) = NumFou
        /\ SumPeds("nfam", DOMAIN PedArray) = NumFam
        /\ NumInd = Size(IndArray) /\ NumFam = Size(FamArray)

\* a pedigree of several families and founders beside a pedigree of one
C29_Witness ==
    /\ AfterMakePeds
    /\ \E p, q \in DOMAIN PedArray :
           /\ PedArray[p].nfam >= 2 /\ PedArray[p].nfou >= 2
           /\ PedArray[p].nind > PedArray[p].nfou
           /\ PedArray[q].nind = 1 /\ PedArray[q].nfam = 0

----------------------------------------------------------------------------
(* The summary of the run. *)

\* the pedigrees of one individual and no family
SingletonPeds ==
    {p \in DOMAIN PedArray : Cardinality(PedInds(p)) = 1 /\ PedFams(p) = {}}

\* C30: in writeInfo() only the pedigrees of a single unrelated individual
\* have one founder, so that the family count of a pedigree with families
\* is left as makePeds() counted it and NumFam grows by the number of
\* singleton pedigrees.
C30_Summary ==
    pc = "written" =>
        /\ \A p \in DOMAIN PedArray :
               /\ PedArray[p].nfou = 1 => p \in SingletonPeds
               /\ PedFams(p) # {} =>
                      /\ PedArray[p].nfou >= 2
                      /\ PedArray[p].nfam = Cardinality(PedFams(p))
        /\ NumFam = Size(FamArray) + Cardinality(SingletonPeds)

\* a summary of a singleton pedigree and a pedigree of two families
C30_Witness ==
    /\ pc = "written"
    /\ Cardinality(SingletonPeds) = 1
    /\ NumFam = Size(FamArray) + 1
    /\ \E p \in DOMAIN PedArray :
           Cardinality(PedFams(p)) = 2 /\ PedArray[p].nfam = 2

====
